---- MODULE Spec2Model ----
(***************************************************************************)
(* Azure DevOps wiki tools: path normalisation, the update sequencer of    *)
(* WikiClient.updatePage, the ordering of WikiClient.listWikiPages, the    *)
(* failure mapping of every WikiClient method, getAuthorizationHeader,     *)
(* the dispatch of handleWikisRequest, and createWikiPage followed by      *)
(* getWikiPage.                                                            *)
(*                                                                         *)
(* A JavaScript string is a sequence of one-character strings, so that     *)
(* trimming, percent-decoding, splitting and joining are computed.         *)
(***************************************************************************)
EXTENDS Integers, Sequences, FiniteSets, TLC

VARIABLES
    normPc,      \* position of the normalisation run
    normIn,      \* the raw pagePath handed to the tool
    normOut,     \* normalizeWikiPath(normIn)             (features/get-wiki-page)
    normTwice,   \* normalizeWikiPath(normOut)
    clientOut,   \* WikiClient.normalizeWikiPath of normOut or of normIn
    pages,       \* the wiki held by Azure DevOps: decoded path -> page
    etagStyle,   \* how the server writes the ETag header of a page version
    otherWrites, \* number of writes made by writers other than updatePage
    upd,         \* invocation -> local state of WikiClient.updatePage
    net,         \* invocation -> the PUT request in flight
    hist,        \* invocation -> record of what the invocation has done
    listPc,      \* position of the listWikiPages call
    listData,    \* response.data of the GET that lists the pages
    listResult,  \* the array listWikiPages returns
    env,         \* AZURE_DEVOPS_AUTH_METHOD and AZURE_DEVOPS_PAT of the process
    op,          \* the call of a WikiClient method in progress
    feat,        \* the call of a feature of src/features/wikis in progress
    tool,        \* the tools/call request handleWikisRequest is serving
    call         \* the createWikiPage or getWikiPage call against the wiki

normVars == <<normPc, normIn, normOut, normTwice, clientOut>>

updVars == <<pages, etagStyle, otherWrites, upd, net, hist>>

listVars == <<listPc, listData, listResult>>

opsVars == <<env, op, feat>>

vars == <<normPc, normIn, normOut, normTwice, clientOut,
          pages, etagStyle, otherWrites, upd, net, hist,
          listPc, listData, listResult, env, op, feat, tool, call>>

(***************************************************************************)
(* Bounds                                                                  *)
(***************************************************************************)
\* number of tokens a generated raw path is made of
MaxTokens == 3

\* number of writes other writers make to the wiki
MaxOtherWrites == 2

\* number of pages of a flat listing response
MaxPages == 3

\* largest order field of a listed page
MaxOrder == 1

\* number of sub-pages of the root of a hierarchical listing response
MaxChildren == 2

\* number of createWikiPage and getWikiPage calls made one after another
MaxCalls == 3

(***************************************************************************)
(* String primitives of the JavaScript runtime                             *)
(***************************************************************************)
StartsWith(s, p) == Len(s) >= Len(p) /\ SubSeq(s, 1, Len(p)) = p

EndsWith(s, p) == Len(s) >= Len(p) /\ SubSeq(s, Len(s) - Len(p) + 1, Len(s)) = p

RECURSIVE TrimStart(_)
TrimStart(s) == IF s # <<>> /\ Head(s) = " " THEN TrimStart(Tail(s)) ELSE s

RECURSIVE TrimEnd(_)
TrimEnd(s) ==
    IF s # <<>> /\ s[Len(s)] = " " THEN TrimEnd(SubSeq(s, 1, Len(s) - 1)) ELSE s

\* String.prototype.trim
trim(s) == TrimEnd(TrimStart(s))

\* String.prototype.split(sep) for a one-character separator: never empty
RECURSIVE SplitAcc(_, _, _)
SplitAcc(s, sep, cur) ==
    IF s = <<>> THEN <<cur>>
    ELSE IF Head(s) = sep THEN <<cur>> \o SplitAcc(Tail(s), sep, <<>>)
    ELSE SplitAcc(Tail(s), sep, Append(cur, Head(s)))

split(s, sep) == SplitAcc(s, sep, <<>>)

\* Array.prototype.join(sep)
RECURSIVE join(_, _)
join(parts, sep) ==
    IF parts = <<>> THEN <<>>
    ELSE IF Len(parts) = 1 THEN parts[1]
    ELSE parts[1] \o <<sep>> \o join(Tail(parts), sep)

\* s.replace(/-/g, ' ')
RECURSIVE ReplaceHyphens(_)
ReplaceHyphens(s) ==
    IF s = <<>> THEN <<>>
    ELSE <<IF Head(s) = "-" THEN " " ELSE Head(s)>> \o ReplaceHyphens(Tail(s))

\* the printable ASCII characters, code points 32 .. 126 (the grave accent,
\* code point 96, is written <grave>)
Printable ==
    <<" ", "!", "\"", "#", "$", "%", "&", "'", "(", ")", "*", "+", ",", "-",
      ".", "/", "0", "1", "2", "3", "4", "5", "6", "7", "8", "9", ":", ";",
      "<", "=", ">", "?", "@", "A", "B", "C", "D", "E", "F", "G", "H", "I",
      "J", "K", "L", "M", "N", "O", "P", "Q", "R", "S", "T", "U", "V", "W",
      "X", "Y", "Z", "[", "\\", "]", "^", "_", "<grave>", "a", "b", "c", "d", "e",
      "f", "g", "h", "i", "j", "k", "l", "m", "n", "o", "p", "q", "r", "s",
      "t", "u", "v", "w", "x", "y", "z", "{", "|", "}", "~">>

HexDigits == <<"0", "1", "2", "3", "4", "5", "6", "7", "8", "9",
               "A", "B", "C", "D", "E", "F">>

IsHex(c) ==
    \/ \E i \in 1..16 : HexDigits[i] = c
    \/ c \in {"a", "b", "c", "d", "e", "f"}

HexVal(c) ==
    CASE c = "a" -> 10 [] c = "b" -> 11 [] c = "c" -> 12
      [] c = "d" -> 13 [] c = "e" -> 14 [] c = "f" -> 15
      [] OTHER -> (CHOOSE i \in 1..16 : HexDigits[i] = c) - 1

\* the character of a decoded code unit below 128; control characters and the
\* characters decoded from a multi-byte UTF-8 sequence are one symbol each
ByteChar(b) == IF b >= 32 /\ b <= 126 THEN Printable[b - 31] ELSE "<ctl>"

\* s[i..i+2] is %XX
IsEscapeAt(s, i) ==
    /\ i + 2 <= Len(s)
    /\ s[i] = "%"
    /\ IsHex(s[i + 1])
    /\ IsHex(s[i + 2])

ByteAt(s, i) == 16 * HexVal(s[i + 1]) + HexVal(s[i + 2])

\* the number of continuation bytes a UTF-8 lead byte announces, -1 when the
\* byte cannot start a sequence
Continuations(b) ==
    IF b < 128 THEN 0
    ELSE IF b >= 194 /\ b <= 223 THEN 1
    ELSE IF b >= 224 /\ b <= 239 THEN 2
    ELSE IF b >= 240 /\ b <= 244 THEN 3
    ELSE -1

\* the n escapes starting at position i are continuation bytes 0x80 .. 0xBF
RECURSIVE ContinuationsAt(_, _, _)
ContinuationsAt(s, i, n) ==
    IF n = 0 THEN TRUE
    ELSE /\ IsEscapeAt(s, i)
         /\ ByteAt(s, i) >= 128
         /\ ByteAt(s, i) <= 191
         /\ ContinuationsAt(s, i + 3, n - 1)

\* decodeURIComponent: ok = FALSE stands for the URIError it throws
RECURSIVE DecodeFrom(_, _)
DecodeFrom(s, i) ==
    IF i > Len(s) THEN [ok |-> TRUE, value |-> <<>>]
    ELSE IF s[i] # "%"
    THEN LET rest == DecodeFrom(s, i + 1)
         IN  [ok |-> rest.ok, value |-> <<s[i]>> \o rest.value]
    ELSE IF ~IsEscapeAt(s, i) THEN [ok |-> FALSE, value |-> <<>>]
    ELSE LET b == ByteAt(s, i)
             n == Continuations(b)
         IN  IF n = -1 \/ ~ContinuationsAt(s, i + 3, n)
             THEN [ok |-> FALSE, value |-> <<>>]
             ELSE LET rest == DecodeFrom(s, i + 3 * (n + 1))
                      c    == IF n = 0 THEN ByteChar(b) ELSE "<utf8>"
                  IN  [ok |-> rest.ok, value |-> <<c>> \o rest.value]

decodeURIComponent(s) == DecodeFrom(s, 1)

(***************************************************************************)
(* features/wikis/get-wiki-page: normalizeWikiPath                         *)
(***************************************************************************)
\* a removal of the extension that knows lower case only
StripMdSuffixCaseSensitive(path) ==
    IF EndsWith(path, <<".", "m", "d">>)
    THEN SubSeq(path, 1, Len(path) - 3)
    ELSE path

\* path.replace(/\.md$/i, '')
StripMdSuffix(path) ==
    LET n == Len(path)
    IN  IF /\ n >= 3
           /\ path[n - 2] = "."
           /\ path[n - 1] \in {"m", "M"}
           /\ path[n] \in {"d", "D"}
        THEN SubSeq(path, 1, n - 3)
        ELSE path

\* path.replace(/\/+/g, '/')
RECURSIVE CollapseSlashes(_)
CollapseSlashes(path) ==
    IF Len(path) < 2 THEN path
    ELSE IF path[1] = "/" /\ path[2] = "/" THEN CollapseSlashes(Tail(path))
    ELSE <<path[1]>> \o CollapseSlashes(Tail(path))

\* a replacement of the hyphens of every segment
ReplaceHyphensInAll(parts) ==
    [k \in 1..Len(parts) |-> ReplaceHyphens(parts[k])]

\* a normaliser that leaves the hyphens alone
ReplaceHyphensNowhere(parts) == parts

\* parts.pop(), last.replace(/-/g, ' '), parts.push(normalizedLast)
ReplaceHyphensInLast(parts) ==
    LET last == parts[Len(parts)]
    IN  SubSeq(parts, 1, Len(parts) - 1) \o <<ReplaceHyphens(last)>>

\* the path trimmed, prefixed with "/" and percent-decoded (kept as it is
\* when decodeURIComponent throws)
DecodePath(input) ==
    LET trimmed  == trim(input)
        prefixed == IF StartsWith(trimmed, <<"/">>) THEN trimmed
                    ELSE <<"/">> \o trimmed
        decoded  == decodeURIComponent(prefixed)
    IN  IF decoded.ok THEN decoded.value ELSE prefixed

\* a path stripped of the extension whose slashes are left as they are
PreparePathUncollapsed(input) == StripMdSuffix(DecodePath(input))

\* the path before its segments are split: stripped of the extension and
\* collapsed
PreparePath(input) == CollapseSlashes(StripMdSuffix(DecodePath(input)))

normalizeWikiPath(input) ==
    IF input = <<>> THEN <<"/">>
    ELSE LET parts      == ReplaceHyphensInLast(split(PreparePath(input), "/"))
             normalized == join(parts, "/")
         IN  IF normalized = <<>> THEN <<"/">> ELSE normalized

(***************************************************************************)
(* clients/azure-devops: WikiClient.normalizeWikiPath                      *)
(***************************************************************************)
\* the path before its segments are split: prefixed and stripped of ".md"
WikiClient_PreparePath(path) ==
    LET prefixed == IF StartsWith(path, <<"/">>) THEN path ELSE <<"/">> \o path
    IN  IF EndsWith(prefixed, <<".", "m", "d">>)
        THEN SubSeq(prefixed, 1, Len(prefixed) - 3)
        ELSE prefixed

WikiClient_normalizeWikiPath(path) ==
    LET stripped == WikiClient_PreparePath(path)
        segments == split(stripped, "/")
        lastSegment == segments[Len(segments)]
    IN  IF lastSegment # <<>>
        THEN join(SubSeq(segments, 1, Len(segments) - 1)
                    \o <<ReplaceHyphens(lastSegment)>>, "/")
        ELSE stripped

(***************************************************************************)
(* Raw paths: concatenations of at most MaxTokens tokens, and the paths    *)
(* the documentation and the tests name                                    *)
(***************************************************************************)
Tokens ==
    { <<"/">>, <<"-">>, <<" ">>, <<"a">>, <<"b">>,
      <<".", "m", "d">>, <<".", "M", "D">>, <<".", "M", "d">>, <<".", "m", "D">>,
      <<"%">>, <<"%", "2", "D">>, <<"%", "2", "F">>, <<"%", "2", "5">>,
      <<"%", "2", "0">> }

RECURSIVE TokenStrings(_)
TokenStrings(n) ==
    IF n = 0 THEN { <<>> }
    ELSE LET shorter == TokenStrings(n - 1)
         IN  shorter \cup { s \o t : s \in shorter, t \in Tokens }

FolderMyPageMd ==
    <<"/", "F", "o", "l", "d", "e", "r", "/", "M", "y", "-", "P", "a", "g", "e",
      ".", "m", "d">>

FolderMyPage ==
    <<"/", "F", "o", "l", "d", "e", "r", "/", "M", "y", " ", "P", "a", "g", "e">>

RawPaths == TokenStrings(MaxTokens) \cup {FolderMyPageMd}

Unset == <<"<unset>">>

(***************************************************************************)
(* The normalisation run                                                   *)
(***************************************************************************)
InitNorm ==
    /\ normPc = "raw"
    /\ normIn \in RawPaths
    /\ normOut = Unset
    /\ normTwice = Unset
    /\ clientOut = Unset

\* getWikiPage: const normalizedPagePath = normalizeWikiPath(pagePath)
Normalize ==
    /\ normPc = "raw"
    /\ normOut' = normalizeWikiPath(normIn)
    /\ normPc' = "normalized"
    /\ UNCHANGED <<normIn, normTwice, clientOut>>

\* the normalised path is handed to the tool again
NormalizeAgain ==
    /\ normPc = "normalized"
    /\ normTwice' = normalizeWikiPath(normOut)
    /\ normPc' = "renormalized"
    /\ UNCHANGED <<normIn, normOut, clientOut>>

\* getWikiPage -> client.getPage(normalizedPagePath): the client's own pass
GetPageNormalize ==
    /\ normPc = "normalized"
    /\ clientOut' = WikiClient_normalizeWikiPath(normOut)
    /\ normPc' = "client"
    /\ UNCHANGED <<normIn, normOut, normTwice>>

\* updatePage -> this.getPage(pagePath): the client's pass on the raw path
UpdatePageNormalize ==
    /\ normPc = "raw"
    /\ clientOut' = WikiClient_normalizeWikiPath(normIn)
    /\ normPc' = "clientRaw"
    /\ UNCHANGED <<normIn, normOut, normTwice>>

(***************************************************************************)
(* HTTP values                                                             *)
(***************************************************************************)
DQ == "\""

\* a JavaScript undefined, and a header the message does not carry
Undefined == <<"<undefined>">>

NoHeader == <<"<absent>">>

\* if (currentETag): undefined and the empty string are falsy
Truthy(e) == e # Undefined /\ e # <<>>

\* s.replace(/"/g, '')
RECURSIVE RemoveQuotes(_)
RemoveQuotes(s) ==
    IF s = <<>> THEN <<>>
    ELSE IF Head(s) = DQ THEN RemoveQuotes(Tail(s))
    ELSE <<Head(s)>> \o RemoveQuotes(Tail(s))

\* `"${currentETag}"`
Quote(s) == <<DQ>> \o s \o <<DQ>>

CharCode(c) == 31 + (CHOOSE i \in 1..Len(Printable) : Printable[i] = c)

\* the characters encodeURIComponent leaves alone
Unreserved(c) ==
    LET code == CharCode(c)
    IN  \/ code >= 48 /\ code <= 57
        \/ code >= 65 /\ code <= 90
        \/ code >= 97 /\ code <= 122
        \/ c \in {"-", "_", ".", "!", "~", "*", "'", "(", ")"}

RECURSIVE encodeURIComponent(_)
encodeURIComponent(s) ==
    IF s = <<>> THEN <<>>
    ELSE LET c    == Head(s)
             code == CharCode(c)
             enc  == IF Unreserved(c) THEN <<c>>
                     ELSE <<"%", HexDigits[(code \div 16) + 1],
                                 HexDigits[(code % 16) + 1]>>
         IN  enc \o encodeURIComponent(Tail(s))

\* s.replace(/%2F/g, '/')
RECURSIVE RestoreSlashes(_)
RestoreSlashes(s) ==
    IF s = <<>> THEN <<>>
    ELSE IF StartsWith(s, <<"%", "2", "F">>)
    THEN <<"/">> \o RestoreSlashes(SubSeq(s, 4, Len(s)))
    ELSE <<Head(s)>> \o RestoreSlashes(Tail(s))

\* encodeURIComponent(pagePath).replace(/%2F/g, '/')
EncodePagePath(pagePath) == RestoreSlashes(encodeURIComponent(pagePath))

(***************************************************************************)
(* The wiki service (Azure DevOps REST API, the system of record)          *)
(***************************************************************************)
Invocations == {"u1", "u2"}

PageAB == <<"/", "a", " ", "b">>

PageAHyphenB == <<"/", "a", "-", "b">>

\* the pagePath arguments of updatePage, and the pages the service can hold
UpdatePaths == {PageAB, PageAHyphenB}

ServerPaths == UpdatePaths

AbsentPage == [exists |-> FALSE, content |-> "none", version |-> 0]

InitialPage == [exists |-> TRUE, content |-> "initial", version |-> 1]

\* the service formats the version of a page as a strong ETag, as a weak
\* ETag, or sends no ETag header
EtagStyles == {"strong", "weak", "none"}

Digit(v) == Printable[v + 17]

EtagHeader(style, page) ==
    IF ~page.exists \/ style = "none" THEN NoHeader
    ELSE IF style = "strong" THEN <<DQ, Digit(page.version), DQ>>
    ELSE <<"W", "/", DQ, Digit(page.version), DQ>>

\* the page a request's path parameter names
RequestTarget(path) == decodeURIComponent(path).value

\* the statuses with which the service refuses a request without looking at
\* the page; 0 stands for a transport failure (no response)
GetFaults == {0, 401, 403, 500}

PutFaults == {0, 400, 401, 403, 404, 500}

\* GET {baseUrl}/{project}/_apis/wiki/wikis/{wikiId}/pages?path=...
ServeGet(path, pgs, style) ==
    LET page == pgs[RequestTarget(path)]
    IN  IF page.exists
        THEN [status |-> 200, etag |-> EtagHeader(style, page)]
        ELSE [status |-> 404, etag |-> NoHeader]

\* PUT ...pages?path=...: a request with If-Match is applied only when the
\* header equals the page's current ETag and answered 412 otherwise; a request
\* without If-Match creates an absent page and, on an existing page, is
\* applied or answered 412 as the service decides (overwrite)
ServePut(req, pgs, style, overwrite) ==
    LET target == RequestTarget(req.path)
        page   == pgs[target]
        accept == IF req.ifMatch # NoHeader
                  THEN page.exists /\ req.ifMatch = EtagHeader(style, page)
                  ELSE ~page.exists \/ overwrite
        written == [exists |-> TRUE, content |-> req.content,
                    version |-> page.version + 1]
    IN  IF accept
        THEN [status |-> IF page.exists THEN 200 ELSE 201,
              etag   |-> EtagHeader(style, written),
              pages  |-> [pgs EXCEPT ![target] = written]]
        ELSE [status |-> 412, etag |-> NoHeader, pages |-> pgs]

(***************************************************************************)
(* clients/azure-devops: WikiClient.getPage and WikiClient.updatePage      *)
(***************************************************************************)
NoResult == [kind |-> "none", message |-> "none", version |-> Undefined]

Failure(kind, message) ==
    [kind |-> kind, message |-> message, version |-> Undefined]

\* the path parameter of getPage's GET
GetPagePath(pagePath) == EncodePagePath(WikiClient_normalizeWikiPath(pagePath))

\* the path parameter of updatePage's PUT
UpdatePagePath(pagePath) == EncodePagePath(pagePath)

\* getPage: eTag: response.headers.etag?.replace(/"/g, '')
GetPageETag(header) ==
    IF header = NoHeader THEN Undefined ELSE RemoveQuotes(header)

\* getPage: the catch block
GetPageError(status) ==
    IF status = 0
    THEN Failure("AzureDevOpsError", "Network error when getting wiki page")
    ELSE IF status = 404
    THEN Failure("AzureDevOpsResourceNotFoundError", "Wiki page not found")
    ELSE IF status \in {401, 403}
    THEN Failure("AzureDevOpsPermissionError",
                 "Permission denied to access wiki page")
    ELSE Failure("AzureDevOpsError", "Failed to get wiki page")

\* a write that never carries the precondition
IfMatchHeaderOmitted(currentETag) == NoHeader

\* updatePage: headers['If-Match'] of the PUT
IfMatchHeader(currentETag) ==
    IF Truthy(currentETag) THEN Quote(currentETag) ELSE NoHeader

\* updatePage: the catch block of the write
UpdatePageError(status) ==
    IF status = 0
    THEN Failure("AzureDevOpsError", "Network error when updating wiki page")
    ELSE IF status = 404
    THEN Failure("AzureDevOpsResourceNotFoundError", "Wiki page not found")
    ELSE IF status \in {401, 403}
    THEN Failure("AzureDevOpsPermissionError",
                 "Permission denied to update wiki page")
    ELSE IF status = 412
    THEN Failure("AzureDevOpsValidationError", "Version conflict")
    ELSE Failure("AzureDevOpsError", "Failed to update wiki page")

\* updatePage: the value returned after a 2xx reply
UpdatePageSuccess(reply) ==
    [kind    |-> "ok",
     message |-> IF reply.status = 201 THEN "Page created successfully"
                 ELSE "Page updated successfully",
     version |-> IF reply.etag = NoHeader THEN Undefined
                 ELSE RemoveQuotes(reply.etag)]

NoRequest ==
    [method |-> "none", path |-> <<>>, ifMatch |-> NoHeader, content |-> "none"]

IdleInvocation ==
    [pc |-> "idle", pagePath |-> <<>>, currentETag |-> Undefined,
     result |-> NoResult]

NoHistory ==
    [events |-> <<>>, fetch |-> "none", etagHeader |-> NoHeader,
     ifMatch |-> NoHeader, stale |-> FALSE, conflict |-> FALSE,
     staleBy |-> {}, conflictWith |-> {}, getStatus |-> -1,
     applied |-> FALSE, putStatus |-> -1]

\* the page the PUT of invocation i names
PutTarget(i) == RequestTarget(UpdatePagePath(upd[i].pagePath))

\* the page the GET of invocation i names
GetTarget(i) == RequestTarget(GetPagePath(upd[i].pagePath))

\* a write to page target by someone other than invocation i is recorded by the
\* invocations that have fetched and whose PUT is not yet processed
NoteWrite(h, target, i) ==
    [j \in Invocations |->
        IF /\ j # i
           /\ upd[j].pc \in {"PAGE_EXISTS", "PAGE_ABSENT", "WRITE"}
           /\ PutTarget(j) = target
        THEN [h[j] EXCEPT !.stale = TRUE, !.staleBy = @ \cup {i}]
        ELSE h[j]]

InitUpdIdle ==
    /\ pages = [p \in ServerPaths |-> AbsentPage]
    /\ etagStyle = "strong"
    /\ otherWrites = 0
    /\ upd = [i \in Invocations |-> [IdleInvocation EXCEPT !.pc = "off"]]
    /\ net = [i \in Invocations |-> NoRequest]
    /\ hist = [i \in Invocations |-> NoHistory]

InitUpd ==
    /\ pages \in [ServerPaths -> {AbsentPage, InitialPage}]
    /\ etagStyle \in EtagStyles
    /\ otherWrites = 0
    /\ upd = [i \in Invocations |->
                 IF i = "u1" THEN IdleInvocation
                 ELSE [IdleInvocation EXCEPT !.pc = "off"]]
    /\ net = [i \in Invocations |-> NoRequest]
    /\ hist = [i \in Invocations |-> NoHistory]

\* updatePage(content, projectId, wikiId, pagePath) is called
UpdatePageStart(i, pagePath) ==
    /\ upd[i].pc = "idle"
    /\ upd' = [upd EXCEPT ![i].pc = "FETCH_CURRENT", ![i].pagePath = pagePath]
    /\ UNCHANGED <<pages, etagStyle, otherWrites, net, hist>>

\* getPage: await getAuthorizationHeader() throws; the catch block of getPage
\* finds no response and updatePage rethrows what is not a not-found error
GetPageAuthFails(i) ==
    /\ upd[i].pc = "FETCH_CURRENT"
    /\ upd' = [upd EXCEPT ![i].pc = "DONE", ![i].result = GetPageError(0)]
    /\ hist' = [hist EXCEPT ![i].fetch = "failed", ![i].getStatus = 0]
    /\ UNCHANGED <<pages, etagStyle, otherWrites, net>>

\* getPage: axios.get(url, {params, headers})
GetPageSend(i) ==
    /\ upd[i].pc = "FETCH_CURRENT"
    /\ upd' = [upd EXCEPT ![i].pc = "GET_IN_FLIGHT"]
    /\ net' = [net EXCEPT ![i] =
                  [method |-> "GET", path |-> GetPagePath(upd[i].pagePath),
                   ifMatch |-> NoHeader, content |-> "none"]]
    /\ hist' = [hist EXCEPT ![i].events = Append(@, "GET")]
    /\ UNCHANGED <<pages, etagStyle, otherWrites>>

\* an updatePage that rethrows every error of getPage, not-found included
AfterFetchRethrowing(i, reply) ==
    IF reply.status = 200
    THEN [upd[i] EXCEPT !.pc = "PAGE_EXISTS",
                        !.currentETag = GetPageETag(reply.etag)]
    ELSE [upd[i] EXCEPT !.pc = "DONE", !.result = GetPageError(reply.status)]

\* an updatePage that takes every failure of getPage for an absent page
AfterFetchIgnoringFailure(i, reply) ==
    IF reply.status = 200
    THEN [upd[i] EXCEPT !.pc = "PAGE_EXISTS",
                        !.currentETag = GetPageETag(reply.etag)]
    ELSE [upd[i] EXCEPT !.pc = "PAGE_ABSENT", !.currentETag = Undefined]

\* what updatePage does with the outcome of its getPage call
AfterFetch(i, reply) ==
    IF reply.status = 200
    THEN [upd[i] EXCEPT !.pc = "PAGE_EXISTS",
                        !.currentETag = GetPageETag(reply.etag)]
    ELSE IF GetPageError(reply.status).kind = "AzureDevOpsResourceNotFoundError"
    THEN [upd[i] EXCEPT !.pc = "PAGE_ABSENT", !.currentETag = Undefined]
    ELSE [upd[i] EXCEPT !.pc = "DONE", !.result = GetPageError(reply.status)]

\* the service answers the GET and getPage returns or throws
GetPageReply(i) ==
    /\ upd[i].pc = "GET_IN_FLIGHT"
    /\ \E reply \in {ServeGet(net[i].path, pages, etagStyle)}
                      \cup {[status |-> f, etag |-> NoHeader] : f \in GetFaults} :
          /\ upd' = [upd EXCEPT ![i] = AfterFetch(i, reply)]
          /\ hist' = [hist EXCEPT
                ![i].events = Append(@, "GET_DONE"),
                ![i].fetch = IF reply.status = 200 THEN "exists"
                             ELSE IF reply.status = 404 THEN "absent"
                             ELSE "failed",
                ![i].etagHeader = reply.etag,
                ![i].getStatus = reply.status,
                ![i].stale = FALSE,
                ![i].staleBy = {}]
    /\ net' = [net EXCEPT ![i] = NoRequest]
    /\ UNCHANGED <<pages, etagStyle, otherWrites>>

\* updatePage: await getAuthorizationHeader() throws inside the try of the
\* write; the catch block finds no response
PutAuthFails(i) ==
    /\ upd[i].pc \in {"PAGE_EXISTS", "PAGE_ABSENT"}
    /\ upd' = [upd EXCEPT ![i].pc = "DONE", ![i].result = UpdatePageError(0)]
    /\ UNCHANGED <<pages, etagStyle, otherWrites, net, hist>>

\* updatePage: axios.put(url, payload, {params, headers})
PutSend(i) ==
    /\ upd[i].pc \in {"PAGE_EXISTS", "PAGE_ABSENT"}
    /\ upd' = [upd EXCEPT ![i].pc = "WRITE"]
    /\ net' = [net EXCEPT ![i] =
                  [method |-> "PUT", path |-> UpdatePagePath(upd[i].pagePath),
                   ifMatch |-> IfMatchHeader(upd[i].currentETag),
                   content |-> i]]
    /\ hist' = [hist EXCEPT ![i].events = Append(@, "PUT"),
                            ![i].ifMatch = IfMatchHeader(upd[i].currentETag)]
    /\ UNCHANGED <<pages, etagStyle, otherWrites>>

\* an updatePage that starts over when its write is answered 412
AfterWriteRetrying(i, reply) ==
    IF reply.status = 412
    THEN [upd[i] EXCEPT !.pc = "FETCH_CURRENT"]
    ELSE [upd[i] EXCEPT !.pc = "DONE",
                        !.result = IF reply.status \in {200, 201}
                                   THEN UpdatePageSuccess(reply)
                                   ELSE UpdatePageError(reply.status)]

\* what updatePage returns or throws for the reply to its PUT
AfterWrite(i, reply) ==
    [upd[i] EXCEPT !.pc = "DONE",
                   !.result = IF reply.status \in {200, 201}
                              THEN UpdatePageSuccess(reply)
                              ELSE UpdatePageError(reply.status)]

\* the service processes the PUT and updatePage returns or throws
PutReply(i) ==
    /\ upd[i].pc = "WRITE"
    /\ \E overwrite \in BOOLEAN :
          LET reply == ServePut(net[i], pages, etagStyle, overwrite)
          IN  /\ pages' = reply.pages
              /\ upd' = [upd EXCEPT ![i] = AfterWrite(i, reply)]
              /\ hist' = [NoteWrite(hist, RequestTarget(net[i].path), i) EXCEPT
                    ![i].events = Append(@, "PUT_DONE"),
                    ![i].conflict = hist[i].stale,
                    ![i].conflictWith = hist[i].staleBy,
                    ![i].applied = reply.status \in {200, 201},
                    ![i].putStatus = reply.status]
    /\ net' = [net EXCEPT ![i] = NoRequest]
    /\ UNCHANGED <<etagStyle, otherWrites>>

\* the service refuses the PUT without processing it, or the PUT is lost
PutFails(i) ==
    /\ upd[i].pc = "WRITE"
    /\ \E f \in PutFaults :
          /\ upd' = [upd EXCEPT ![i] =
                        AfterWrite(i, [status |-> f, etag |-> NoHeader])]
          /\ hist' = [hist EXCEPT ![i].events = Append(@, "PUT_DONE"),
                                  ![i].putStatus = f]
    /\ net' = [net EXCEPT ![i] = NoRequest]
    /\ UNCHANGED <<pages, etagStyle, otherWrites>>

\* another writer creates or modifies a page
OtherWrite(target) ==
    /\ otherWrites < MaxOtherWrites
    /\ otherWrites' = otherWrites + 1
    /\ pages' = [pages EXCEPT ![target] =
                    [exists |-> TRUE, content |-> "other",
                     version |-> @.version + 1]]
    /\ hist' = NoteWrite(hist, target, "other")
    /\ UNCHANGED <<etagStyle, upd, net>>

(***************************************************************************)
(* clients/azure-devops: WikiClient.listWikiPages                          *)
(***************************************************************************)
\* Number.MAX_SAFE_INTEGER (2^53 - 1), scaled to the integers of the checker
MAX_SAFE_INTEGER == 2147483647

\* an order field that is undefined
NoOrder == -1

IsLetter(c) ==
    \/ CharCode(c) >= 65 /\ CharCode(c) <= 90
    \/ CharCode(c) >= 97 /\ CharCode(c) <= 122

IsUpper(c) == CharCode(c) >= 65 /\ CharCode(c) <= 90

\* collation weights of a character: spaces and punctuation before digits
\* before letters, a letter and its capital sharing the primary weight and
\* the lower case coming first at the next level
PrimaryWeight(c) ==
    IF IsLetter(c)
    THEN 200 + (IF IsUpper(c) THEN CharCode(c) + 32 ELSE CharCode(c))
    ELSE IF CharCode(c) >= 48 /\ CharCode(c) <= 57 THEN 100 + CharCode(c)
    ELSE CharCode(c)

CaseWeight(c) == IF IsLetter(c) /\ IsUpper(c) THEN 1 ELSE 0

\* lexicographic comparison of two weight sequences: -1, 0 or 1
RECURSIVE CompareWeights(_, _)
CompareWeights(u, v) ==
    IF u = <<>> /\ v = <<>> THEN 0
    ELSE IF u = <<>> THEN -1
    ELSE IF v = <<>> THEN 1
    ELSE IF Head(u) < Head(v) THEN -1
    ELSE IF Head(u) > Head(v) THEN 1
    ELSE CompareWeights(Tail(u), Tail(v))

\* String.prototype.localeCompare
localeCompare(a, b) ==
    LET primary == CompareWeights([k \in 1..Len(a) |-> PrimaryWeight(a[k])],
                                  [k \in 1..Len(b) |-> PrimaryWeight(b[k])])
    IN  IF primary # 0 THEN primary
        ELSE CompareWeights([k \in 1..Len(a) |-> CaseWeight(a[k])],
                            [k \in 1..Len(b) |-> CaseWeight(b[k])])

\* a comparator that ignores the order field
ComparePagesByPathOnly(a, b) == localeCompare(a.path, b.path)

\* the comparator handed to allPages.sort
ComparePages(a, b) ==
    LET aOrder == IF a.order = NoOrder THEN MAX_SAFE_INTEGER ELSE a.order
        bOrder == IF b.order = NoOrder THEN MAX_SAFE_INTEGER ELSE b.order
    IN  IF aOrder # bOrder THEN aOrder - bOrder
        ELSE localeCompare(a.path, b.path)

\* Array.prototype.sort is stable: an element is inserted after the elements
\* that do not compare greater than it
RECURSIVE InsertPage(_, _)
InsertPage(sorted, page) ==
    IF sorted = <<>> THEN <<page>>
    ELSE IF ComparePages(Head(sorted), page) <= 0
    THEN <<Head(sorted)>> \o InsertPage(Tail(sorted), page)
    ELSE <<page>> \o sorted

RECURSIVE SortPages(_)
SortPages(list) ==
    IF list = <<>> THEN <<>>
    ELSE InsertPage(SortPages(SubSeq(list, 1, Len(list) - 1)), list[Len(list)])

\* mapPageData
mapPageData(page) ==
    [id |-> page.id, path |-> page.path, order |-> page.order,
     isParentPage |-> page.isParentPage]

\* the id generated from the path of a page that has none
RECURSIVE HashFrom(_, _)
HashFrom(a, path) ==
    IF path = <<>> THEN a
    ELSE HashFrom((a * 32) - a + CharCode(Head(path)), Tail(path))

GeneratedId(path) ==
    LET h == HashFrom(0, path) IN IF h < 0 THEN -h ELSE h

\* extractPagesRecursively
RECURSIVE extractPagesRecursively(_)
RECURSIVE ExtractAll(_)
ExtractAll(subPages) ==
    IF subPages = <<>> THEN <<>>
    ELSE extractPagesRecursively(Head(subPages)) \o ExtractAll(Tail(subPages))

\* an extraction that descends from the root only
extractPagesOfFirstLevel(page) ==
    LET own == IF page.path # <<>> /\ page.path # <<"/">>
               THEN << [id |-> IF page.id # 0 THEN page.id
                               ELSE GeneratedId(page.path),
                        path |-> page.path,
                        order |-> page.order,
                        isParentPage |-> page.isParentPage
                                         \/ Len(page.subPages) > 0] >>
               ELSE <<>>
    IN  own \o (IF page.path = <<"/">> THEN ExtractAll(page.subPages)
                ELSE <<>>)

extractPagesRecursively(page) ==
    LET own == IF page.path # <<>> /\ page.path # <<"/">>
               THEN << [id |-> IF page.id # 0 THEN page.id
                               ELSE GeneratedId(page.path),
                        path |-> page.path,
                        order |-> page.order,
                        isParentPage |-> page.isParentPage
                                         \/ Len(page.subPages) > 0] >>
               ELSE <<>>
    IN  own \o ExtractAll(page.subPages)

\* allPages before it is sorted
ExtractPages(data) ==
    IF data.format \in {"array", "value"}
    THEN [k \in 1..Len(data.pages) |-> mapPageData(data.pages[k])]
    ELSE IF data.format = "subPages" THEN extractPagesRecursively(data.root)
    ELSE <<>>

\* the responses: a flat array, an object with a value array, a hierarchy
\* of subPages (TFS on-premises), an object of none of these shapes
ListPaths == { <<"/", "a">>, <<"/", "A">>, <<"/", "b">> }

Orders == (0..MaxOrder) \cup {NoOrder}

FlatLists ==
    UNION { { [k \in 1..n |->
                 [id |-> k, path |-> f[k][1], order |-> f[k][2],
                  isParentPage |-> FALSE]] :
              f \in [1..n -> ListPaths \X Orders] } : n \in 0..MaxPages }

Node(path, order, subPages) ==
    [id |-> 0, path |-> path, order |-> order, isParentPage |-> FALSE,
     subPages |-> subPages]

TreeLeaves ==
    { Node(p, o, <<>>) : p \in { <<"/", "a">>, <<"/", "b">>, <<>> },
                         o \in {1, NoOrder} }

TreeNodes ==
    TreeLeaves \cup { Node(<<"/", "a">>, 1, <<leaf>>) : leaf \in TreeLeaves }

TreeRoots ==
    { Node(<<"/">>, NoOrder, kids) :
        kids \in UNION { [1..n -> TreeNodes] : n \in 0..MaxChildren } }

ListResponses ==
    { [format |-> fmt, pages |-> list, root |-> Node(<<>>, NoOrder, <<>>)] :
        fmt \in {"array", "value"}, list \in FlatLists }
    \cup { [format |-> "subPages", pages |-> <<>>, root |-> root] :
             root \in TreeRoots }
    \cup { [format |-> "other", pages |-> <<>>,
            root |-> Node(<<>>, NoOrder, <<>>)] }

InitList ==
    /\ listPc = "requested"
    /\ listData \in ListResponses
    /\ listResult = <<>>

InitListIdle ==
    /\ listPc = "off"
    /\ listData = [format |-> "other", pages |-> <<>>,
                   root |-> Node(<<>>, NoOrder, <<>>)]
    /\ listResult = <<>>

\* listWikiPages: the 2xx reply to its GET arrives
ListWikiPagesReturn ==
    /\ listPc = "requested"
    /\ listResult' = SortPages(ExtractPages(listData))
    /\ listPc' = "returned"
    /\ UNCHANGED listData

(***************************************************************************)
(* Errors and messages                                                     *)
(*                                                                         *)
(* A message is a sequence of fragments, each fragment a sequence of       *)
(* strings: a literal of the source is one fragment, an interpolated       *)
(* identifier is one fragment, an interpolated message is its fragments.   *)
(***************************************************************************)
\* a literal fragment of a template string
Lit(s) == <<s>>

\* the error classes of shared/errors the wiki client and features import
AzureDevOpsErrorKinds ==
    {"AzureDevOpsError", "AzureDevOpsResourceNotFoundError",
     "AzureDevOpsPermissionError", "AzureDevOpsValidationError",
     "AzureDevOpsAuthenticationError"}

\* axiosError.response of an error that carries no reply: a transport
\* failure, and every error that is not an AxiosError
NoResponse == [status |-> 0, hasMessage |-> FALSE, message |-> <<>>]

\* new AzureDevOpsError(message) and its subclasses; the kind "none" stands
\* for no error yet and the kind "ok" for a value returned
Thrown(kind, message) ==
    [kind |-> kind, message |-> message, response |-> NoResponse]

\* a message that leaves the body of the reply aside
errorMessageOfAxios(error) == error.message

\* response.data.message || axiosError.message
errorMessage(error) ==
    IF error.response.hasMessage /\ error.response.message # <<>>
    THEN error.response.message
    ELSE error.message

(***************************************************************************)
(* clients/azure-devops: getAuthorizationHeader                            *)
(***************************************************************************)
RECURSIVE toLowerCase(_)
toLowerCase(s) ==
    IF s = <<>> THEN <<>>
    ELSE <<IF IsUpper(Head(s)) THEN Printable[CharCode(Head(s)) + 1]
           ELSE Head(s)>> \o toLowerCase(Tail(s))

\* Buffer.from(string).toString('base64') on the bytes of an ASCII string
RECURSIVE Base64(_)
Base64(bytes) ==
    LET alphabet ==
          <<"A", "B", "C", "D", "E", "F", "G", "H", "I", "J", "K", "L", "M",
            "N", "O", "P", "Q", "R", "S", "T", "U", "V", "W", "X", "Y", "Z",
            "a", "b", "c", "d", "e", "f", "g", "h", "i", "j", "k", "l", "m",
            "n", "o", "p", "q", "r", "s", "t", "u", "v", "w", "x", "y", "z",
            "0", "1", "2", "3", "4", "5", "6", "7", "8", "9", "+", "/">>
    IN  IF bytes = <<>> THEN <<>>
        ELSE IF Len(bytes) = 1
        THEN <<alphabet[(bytes[1] \div 4) + 1],
               alphabet[(bytes[1] % 4) * 16 + 1], "=", "=">>
        ELSE IF Len(bytes) = 2
        THEN <<alphabet[(bytes[1] \div 4) + 1],
               alphabet[(bytes[1] % 4) * 16 + (bytes[2] \div 16) + 1],
               alphabet[(bytes[2] % 16) * 4 + 1], "=">>
        ELSE <<alphabet[(bytes[1] \div 4) + 1],
               alphabet[(bytes[1] % 4) * 16 + (bytes[2] \div 16) + 1],
               alphabet[(bytes[2] % 16) * 4 + (bytes[3] \div 64) + 1],
               alphabet[(bytes[3] % 64) + 1]>>
             \o Base64(SubSeq(bytes, 4, Len(bytes)))

\* a PAT strategy chosen on the letters of the method as they are written
UsesPatCaseSensitive(e) ==
    e.method = <<"p", "a", "t">> /\ e.pat # Unset /\ e.pat # <<>>

\* AZURE_DEVOPS_AUTH_METHOD?.toLowerCase() === 'pat' && AZURE_DEVOPS_PAT
UsesPat(e) ==
    /\ e.method # Unset
    /\ toLowerCase(e.method) = <<"p", "a", "t">>
    /\ e.pat # Unset
    /\ e.pat # <<>>

\* what credential.getToken resolves to or rejects with: null, an access
\* token whose token string is empty, an access token, a rejection
CredentialReplies ==
    { [kind |-> "null", token |-> <<>>],
      [kind |-> "token", token |-> <<>>],
      [kind |-> "token", token |-> <<"t", "o", "k">>],
      [kind |-> "rejects", token |-> <<>>] }

\* !token || !token.token
NoToken(reply) ==
    reply.kind = "null" \/ (reply.kind = "token" /\ reply.token = <<>>)

\* getAuthorizationHeader() under configuration e, reply being the outcome
\* of credential.getToken should the call reach it: the header, the
\* credential class constructed, the scope asked for, the error thrown
getAuthorizationHeader(e, reply) ==
    LET credential ==
          IF /\ e.method # Unset
             /\ toLowerCase(e.method)
                   = <<"a", "z", "u", "r", "e", "-", "c", "l", "i">>
          THEN "AzureCliCredential"
          ELSE "DefaultAzureCredential"
        scope == "499b84ac-1321-427f-aa17-267ca6975798/.default"
        failed(cause) ==
          [ok |-> FALSE, header |-> NoHeader, credential |-> credential,
           scope |-> scope,
           error |-> Thrown("AzureDevOpsValidationError",
                       <<Lit("Failed to get authorization header: "), cause>>)]
    IN  IF UsesPat(e)
        THEN [ok |-> TRUE,
              header |-> <<"B", "a", "s", "i", "c", " ">>
                  \o Base64([k \in 1..(Len(e.pat) + 1) |->
                               CharCode((<<":">> \o e.pat)[k])]),
              credential |-> "none", scope |-> "none",
              error |-> Thrown("none", <<>>)]
        ELSE IF reply.kind = "rejects"
        THEN failed(Lit("CredentialUnavailableError"))
        ELSE IF NoToken(reply)
        THEN failed(Lit("Failed to acquire token for Azure DevOps"))
        ELSE [ok |-> TRUE,
              header |-> <<"B", "e", "a", "r", "e", "r", " ">> \o reply.token,
              credential |-> credential, scope |-> scope,
              error |-> Thrown("none", <<>>)]

(***************************************************************************)
(* clients/azure-devops: the catch block of every WikiClient method        *)
(***************************************************************************)
\* getProjectId(projectNameOrId)
getProjectId_catch(error, projectNameOrId) ==
    IF error.response # NoResponse
    THEN IF error.response.status = 404
         THEN Thrown("AzureDevOpsResourceNotFoundError",
                     <<Lit("Project not found: "), projectNameOrId>>)
         ELSE IF error.response.status \in {401, 403}
         THEN Thrown("AzureDevOpsPermissionError",
                     <<Lit("Permission denied to access project: "),
                       projectNameOrId>>)
         ELSE Thrown("AzureDevOpsError",
                     <<Lit("Failed to get project details: ")>>
                         \o errorMessage(error))
    ELSE Thrown("AzureDevOpsError",
                <<Lit("Network error when getting project details: ")>>
                    \o error.message)

\* createWiki(projectId, params)
createWiki_catch(error, projectId) ==
    IF error.response # NoResponse
    THEN IF error.response.status = 404
         THEN Thrown("AzureDevOpsResourceNotFoundError",
                     <<Lit("Project not found: "), projectId>>)
         ELSE IF error.response.status \in {401, 403}
         THEN Thrown("AzureDevOpsPermissionError",
                     <<Lit("Permission denied to create wiki in project: "),
                       projectId>>)
         ELSE IF error.response.status = 400
         THEN Thrown("AzureDevOpsValidationError",
                     <<Lit("Invalid wiki creation parameters: ")>>
                         \o errorMessage(error))
         ELSE Thrown("AzureDevOpsError",
                     <<Lit("Failed to create wiki: ")>> \o errorMessage(error))
    ELSE Thrown("AzureDevOpsError",
                <<Lit("Network error when creating wiki: ")>>
                    \o error.message)

\* getPage(projectId, wikiId, pagePath)
getPage_catch(error, wikiId, pagePath) ==
    LET kind == GetPageError(error.response.status).kind
        head == Lit(GetPageError(error.response.status).message)
    IN  IF error.response # NoResponse
        THEN IF error.response.status = 404
             THEN Thrown(kind,
                         <<head, Lit(": "), pagePath, Lit(" (normalized to: "),
                           WikiClient_normalizeWikiPath(pagePath),
                           Lit(") in wiki "), wikiId,
                           Lit(". Make sure the path follows wiki path rules")>>)
             ELSE IF error.response.status \in {401, 403}
             THEN Thrown(kind, <<head, Lit(": "), pagePath>>)
             ELSE Thrown(kind, <<head, Lit(": ")>> \o errorMessage(error)
                                   \o <<Lit(" "), Lit("<response.data>")>>)
        ELSE Thrown(kind, <<head, Lit(": ")>> \o error.message)

\* a createPage that maps no 412 reply
createPage_catchWithout412(error, pagePath) ==
    IF error.response # NoResponse
    THEN IF error.response.status = 404
         THEN Thrown("AzureDevOpsResourceNotFoundError",
                     <<Lit("Cannot create wiki page: parent path for "),
                       pagePath, Lit(" does not exist")>>)
         ELSE IF error.response.status \in {401, 403}
         THEN Thrown("AzureDevOpsPermissionError",
                     <<Lit("Permission denied to create wiki page: "),
                       pagePath>>)
         ELSE IF error.response.status = 400
         THEN Thrown("AzureDevOpsValidationError",
                     <<Lit("Invalid request when creating wiki page: ")>>
                         \o errorMessage(error))
         ELSE Thrown("AzureDevOpsError",
                     <<Lit("Failed to create wiki page: ")>>
                         \o errorMessage(error))
    ELSE Thrown("AzureDevOpsError",
                <<Lit("Network error when creating wiki page: ")>>
                    \o error.message)

\* createPage(content, projectId, wikiId, pagePath)
createPage_catch(error, pagePath) ==
    IF error.response # NoResponse
    THEN IF error.response.status = 404
         THEN Thrown("AzureDevOpsResourceNotFoundError",
                     <<Lit("Cannot create wiki page: parent path for "),
                       pagePath, Lit(" does not exist")>>)
         ELSE IF error.response.status \in {401, 403}
         THEN Thrown("AzureDevOpsPermissionError",
                     <<Lit("Permission denied to create wiki page: "),
                       pagePath>>)
         ELSE IF error.response.status = 412
         THEN Thrown("AzureDevOpsValidationError",
                     <<Lit("Wiki page already exists: "), pagePath>>)
         ELSE IF error.response.status = 400
         THEN Thrown("AzureDevOpsValidationError",
                     <<Lit("Invalid request when creating wiki page: ")>>
                         \o errorMessage(error))
         ELSE Thrown("AzureDevOpsError",
                     <<Lit("Failed to create wiki page: ")>>
                         \o errorMessage(error))
    ELSE Thrown("AzureDevOpsError",
                <<Lit("Network error when creating wiki page: ")>>
                    \o error.message)

\* updatePage(content, projectId, wikiId, pagePath): the catch of the write
updatePage_catch(error, wikiId, pagePath) ==
    LET kind == UpdatePageError(error.response.status).kind
        head == Lit(UpdatePageError(error.response.status).message)
    IN  IF error.response # NoResponse
        THEN IF error.response.status = 404
             THEN Thrown(kind, <<head, Lit(": "), pagePath, Lit(" in wiki "),
                                 wikiId>>)
             ELSE IF error.response.status \in {401, 403}
             THEN Thrown(kind, <<head, Lit(": "), pagePath>>)
             ELSE IF error.response.status = 412
             THEN Thrown(kind, <<head,
                                 Lit(": The wiki page has been modified")>>)
             ELSE Thrown(kind, <<head, Lit(": ")>> \o errorMessage(error))
        ELSE Thrown(kind, <<head, Lit(": ")>> \o error.message)

\* listWikiPages(projectId, wikiId, options)
listWikiPages_catch(error, projectId, wikiId) ==
    IF error.response # NoResponse
    THEN IF error.response.status = 404
         THEN Thrown("AzureDevOpsResourceNotFoundError",
                     <<Lit("Wiki not found: "), wikiId, Lit(" in project "),
                       projectId>>)
         ELSE IF error.response.status \in {401, 403}
         THEN Thrown("AzureDevOpsPermissionError",
                     <<Lit("Permission denied to list wiki pages in wiki: "),
                       wikiId>>)
         ELSE Thrown("AzureDevOpsError",
                     <<Lit("Failed to list wiki pages: ")>>
                         \o errorMessage(error))
    ELSE Thrown("AzureDevOpsError",
                <<Lit("Network error when listing wiki pages: ")>>
                    \o error.message)

\* listWikis(projectId)
listWikis_catch(error, projectId) ==
    IF error.response # NoResponse
    THEN IF error.response.status = 404
         THEN Thrown("AzureDevOpsResourceNotFoundError",
                     <<Lit("Project not found or no wiki access: "),
                       projectId>>)
         ELSE IF error.response.status \in {401, 403}
         THEN Thrown("AzureDevOpsPermissionError",
                     <<Lit("Permission denied to list wikis in project: "),
                       projectId>>)
         ELSE Thrown("AzureDevOpsError",
                     <<Lit("Failed to list wikis: ")>> \o errorMessage(error))
    ELSE Thrown("AzureDevOpsError",
                <<Lit("Network error when listing wikis: ")>>
                    \o error.message)

(***************************************************************************)
(* The wiki operations of WikiClient and the features that call them       *)
(***************************************************************************)
\* utils/environment: defaultProject when AZURE_DEVOPS_DEFAULT_PROJECT is unset
defaultProject == <<"no default project">>

\* the projectId a caller passes: empty, or the name of a project
ProjectIds == { <<>>, <<"P", "1">> }

\* the process environment getAuthorizationHeader reads
Envs ==
    [method : { Unset, <<"p", "a", "t">>, <<"P", "A", "T">>,
                <<"a", "z", "u", "r", "e", "-", "c", "l", "i">>,
                <<"A", "z", "u", "r", "e", "-", "C", "L", "I">>,
                <<"a", "z", "u", "r", "e", "-", "i", "d", "e", "n", "t", "i",
                  "t", "y">> },
     pat : { Unset, <<>>, <<"a">>, <<"a", "b">>, <<"a", "b", "c">> }]

\* axiosError.response of a reply outside 2xx: its status and, of
\* response.data, no message, an empty message or a message
ErrorReplies ==
    { [status |-> s, hasMessage |-> b.hasMessage, message |-> b.message] :
        s \in {400, 401, 403, 404, 409, 412, 500},
        b \in { [hasMessage |-> FALSE, message |-> <<>>],
                [hasMessage |-> TRUE, message |-> <<>>],
                [hasMessage |-> TRUE,
                 message |-> <<Lit("TF401019: the service's message")>>] } }

\* no method of the WikiClient is running
IdleOp ==
    [pc |-> "idle", name |-> "none", stage |-> "none", projectId |-> <<>>,
     project |-> <<>>, wikiId |-> <<>>, pagePath |-> <<>>,
     auth |-> [ok |-> FALSE, header |-> NoHeader, credential |-> "unasked",
               scope |-> "none", error |-> Thrown("none", <<>>)],
     noToken |-> FALSE, fetch |-> "none", cause |-> Thrown("none", <<>>),
     outcome |-> Thrown("none", <<>>)]

\* the method is entered with the arguments it takes; its first request is
\* the project lookup in createWiki and the fetch in updatePage
Entered(name, projectId, wikiId, pagePath) ==
    [IdleOp EXCEPT
        !.pc = "AUTH", !.name = name,
        !.stage = IF name = "createWiki" THEN "lookup"
                  ELSE IF name = "updatePage" THEN "fetch"
                  ELSE "main",
        !.projectId = projectId,
        !.project = IF projectId = <<>> THEN defaultProject ELSE projectId,
        !.wikiId = IF name \in {"listWikis", "createWiki"} THEN <<>>
                   ELSE wikiId,
        !.pagePath = IF name \in {"getPage", "createPage", "updatePage"}
                     THEN pagePath ELSE <<>>]

\* a stage failed with error: the catch block of the method throws, except
\* that updatePage takes a not-found of its fetch for an absent page and
\* goes on to the write
AfterFailure(o, error) ==
    LET thrown ==
          IF o.stage = "lookup"
          THEN createWiki_catch(getProjectId_catch(error, o.project),
                                o.projectId)
          ELSE IF o.stage = "fetch"
          THEN getPage_catch(error, o.wikiId, o.pagePath)
          ELSE IF o.stage = "write"
          THEN updatePage_catch(error, o.wikiId, o.pagePath)
          ELSE IF o.name = "createWiki"
          THEN createWiki_catch(error, o.projectId)
          ELSE IF o.name = "getPage"
          THEN getPage_catch(error, o.wikiId, o.pagePath)
          ELSE IF o.name = "createPage"
          THEN createPage_catch(error, o.pagePath)
          ELSE IF o.name = "listWikiPages"
          THEN listWikiPages_catch(error, o.projectId, o.wikiId)
          ELSE listWikis_catch(error, o.projectId)
    IN  IF o.stage = "fetch" /\ thrown.kind = "AzureDevOpsResourceNotFoundError"
        THEN [o EXCEPT !.pc = "AUTH", !.stage = "write", !.fetch = "absent"]
        ELSE [o EXCEPT !.pc = "DONE", !.cause = error, !.outcome = thrown]

InitOpsIdle ==
    /\ env = [method |-> Unset, pat |-> Unset]
    /\ op = IdleOp
    /\ feat = [pc |-> "idle", name |-> "none", client |-> "none",
               clientOutcome |-> Thrown("none", <<>>),
               outcome |-> Thrown("none", <<>>)]

InitOps ==
    /\ env \in Envs
    /\ op = IdleOp
    /\ feat = [pc |-> "idle", name |-> "none", client |-> "none",
               clientOutcome |-> Thrown("none", <<>>),
               outcome |-> Thrown("none", <<>>)]

\* a method of WikiClient is called
OpCall(name, projectId, wikiId, pagePath) ==
    /\ op.pc = "idle"
    /\ feat.pc = "idle"
    /\ op' = Entered(name, projectId, wikiId, pagePath)
    /\ UNCHANGED <<env, feat>>

\* await getAuthorizationHeader() inside the try block of the stage
OpAuthorize(reply) ==
    /\ op.pc = "AUTH"
    /\ LET auth == getAuthorizationHeader(env, reply)
       IN  op' = IF auth.ok
                 THEN [op EXCEPT !.pc = "SENT", !.auth = auth]
                 ELSE [AfterFailure(op, auth.error) EXCEPT
                          !.auth = auth, !.noToken = NoToken(reply)]
    /\ UNCHANGED <<env, feat>>

\* the service answers the request of the stage with a 2xx status: the
\* method goes on to its next request or returns
OpSucceeds ==
    /\ op.pc = "SENT"
    /\ op' = IF op.stage = "lookup"
             THEN [op EXCEPT !.pc = "AUTH", !.stage = "main"]
             ELSE IF op.stage = "fetch"
             THEN [op EXCEPT !.pc = "AUTH", !.stage = "write",
                             !.fetch = "exists"]
             ELSE [op EXCEPT !.pc = "DONE", !.outcome = Thrown("ok", <<>>)]
    /\ UNCHANGED <<env, feat>>

\* the service answers the request of the stage with an error status
OpReply(reply) ==
    /\ op.pc = "SENT"
    /\ op' = AfterFailure(op,
                [kind |-> "AxiosError",
                 message |-> <<Lit("Request failed with status code")>>,
                 response |-> reply])
    /\ UNCHANGED <<env, feat>>

\* the request of the stage gets no reply
OpTransportFails ==
    /\ op.pc = "SENT"
    /\ op' = AfterFailure(op,
                [kind |-> "AxiosError",
                 message |-> <<Lit("connect ECONNREFUSED")>>,
                 response |-> NoResponse])
    /\ UNCHANGED <<env, feat>>

\* a catch block that wraps whatever it catches
FeatureCatchWrappingAll(feature, error) ==
    Thrown("AzureDevOpsError", <<Lit("Failed to get wikis")>>)

\* the catch block of getWikis, getWikiPage and listWikiPages:
\* if (error instanceof AzureDevOpsError) throw error;
\* throw new AzureDevOpsError('Failed to ...', { cause: error })
FeatureCatch(feature, error) ==
    IF error.kind \in AzureDevOpsErrorKinds THEN error
    ELSE Thrown("AzureDevOpsError",
                IF feature = "getWikis" THEN <<Lit("Failed to get wikis")>>
                ELSE IF feature = "getWikiPage"
                THEN <<Lit("Failed to get wiki page")>>
                ELSE <<Lit("Failed to list wiki pages")>>)

\* what a stand-in for the client rejects with in the unit tests
DoubleRejections ==
    { Thrown("AzureDevOpsResourceNotFoundError", <<Lit("Project not found")>>),
      Thrown("AzureDevOpsPermissionError", <<Lit("Permission denied")>>),
      Thrown("AzureDevOpsError", <<Lit("API error")>>),
      Thrown("Error", <<Lit("Network error")>>) }

\* getWikis, getWikiPage or listWikiPages is called and calls its method of
\* the client, which is the WikiClient or a stand-in: getWikis calls
\* listWikis, getWikiPage calls getPage with the normalised pagePath,
\* listWikiPages calls listWikiPages with projectId || defaultProject
FeatureCall(feature, client, projectId, wikiId, pagePath) ==
    /\ op.pc = "idle"
    /\ feat.pc = "idle"
    /\ feat' = [feat EXCEPT !.pc = "awaiting", !.name = feature,
                            !.client = client]
    /\ op' = IF client # "WikiClient" THEN op
             ELSE IF feature = "getWikis"
             THEN Entered("listWikis", projectId, wikiId, pagePath)
             ELSE IF feature = "getWikiPage"
             THEN Entered("getPage", projectId, wikiId,
                          normalizeWikiPath(pagePath))
             ELSE Entered("listWikiPages",
                          IF projectId = <<>> THEN defaultProject
                          ELSE projectId,
                          wikiId, pagePath)
    /\ UNCHANGED env

\* the awaited method of the WikiClient has returned or thrown
FeatureSettle ==
    /\ feat.pc = "awaiting"
    /\ feat.client = "WikiClient"
    /\ op.pc = "DONE"
    /\ feat' = [feat EXCEPT
          !.pc = "settled",
          !.clientOutcome = op.outcome,
          !.outcome = IF op.outcome.kind = "ok" THEN op.outcome
                      ELSE FeatureCatch(feat.name, op.outcome)]
    /\ UNCHANGED <<env, op>>

\* the awaited method of the stand-in rejects
FeatureDoubleRejects(error) ==
    /\ feat.pc = "awaiting"
    /\ feat.client = "double"
    /\ feat' = [feat EXCEPT !.pc = "settled", !.clientOutcome = error,
                            !.outcome = FeatureCatch(feat.name, error)]
    /\ UNCHANGED <<env, op>>

(***************************************************************************)
(* features/wikis/index: isWikisRequest and handleWikisRequest             *)
(***************************************************************************)
\* the names a tools/call request may carry
ToolNames ==
    {"get_wikis", "get_wiki_page", "create_wiki", "update_wiki_page",
     "list_wiki_pages", "create_wiki_page", "get_me", "list_projects",
     "unknown_tool", "Get_Wikis"}

\* isWikisRequest(request)
isWikisRequest(name) ==
    name \in {"get_wikis", "get_wiki_page", "create_wiki", "update_wiki_page",
              "list_wiki_pages", "create_wiki_page"}

\* a switch without the cases of the page listing and the page creation
HandledToolsWithoutNewCases ==
    {"get_wikis", "get_wiki_page", "create_wiki", "update_wiki_page"}

\* the case labels of the switch of handleWikisRequest
HandledTools ==
    {"get_wikis", "get_wiki_page", "create_wiki", "update_wiki_page",
     "list_wiki_pages", "create_wiki_page"}

\* the issues a schema finds in the arguments of a request, each with its
\* path and its message; none when the arguments are well formed
IssueLists ==
    { <<>>,
      <<[path |-> <<Lit("wikiId")>>, message |-> "Required"]>>,
      <<[path |-> <<>>, message |-> "Expected object, received string"]>>,
      <<[path |-> <<Lit("wikiId")>>, message |-> "Required"],
        [path |-> <<Lit("pagePath")>>, message |-> "Required"]>>,
      <<[path |-> <<Lit("pagePath")>>,
         message |-> "Expected string, received number"]>>,
      <<[path |-> <<Lit("versionDescriptor"), Lit("version")>>,
         message |-> "Expected string"]>> }

\* `- ${i.path.join('.') || '(root)'}: ${i.message}`
IssueLine(i) ==
    <<"- ">> \o (IF join(i.path, ".") = <<>> THEN <<"(root)">>
                 ELSE join(i.path, "."))
             \o <<": ", i.message>>

\* `Invalid arguments for get_wiki_page:\n${issues}\n\n${help}`
Guidance(issues) ==
    <<Lit("Invalid arguments for get_wiki_page:")>>
        \o [k \in 1..Len(issues) |-> IssueLine(issues[k])]
        \o <<Lit("Usage: get_wiki_page requires: wikiId (string), pagePath (string)")>>

\* no request is being served
InitTool ==
    tool = [pc |-> "idle", name |-> "none", issues |-> <<>>,
            routed |-> FALSE, feature |-> "none", content |-> <<>>,
            error |-> Thrown("none", <<>>),
            result |-> [kind |-> "none", text |-> <<>>,
                        error |-> Thrown("none", <<>>)]]

\* handleWikisRequest up to its await of the feature: the switch on the
\* name, parse (safeParse for get_wiki_page) of the arguments, the call of
\* the feature
HandleWikisRequest(name, issues) ==
    /\ tool.pc = "idle"
    /\ tool' =
         LET t == [tool EXCEPT !.name = name, !.issues = issues,
                               !.routed = isWikisRequest(name)]
         IN  IF name \notin HandledTools
             THEN [t EXCEPT !.pc = "threw",
                            !.error = Thrown("Error",
                                <<Lit("Unknown wikis tool: "), <<name>>>>)]
             ELSE IF issues # <<>> /\ name = "get_wiki_page"
             THEN [t EXCEPT !.pc = "returned",
                            !.content = <<[type |-> "text",
                                           text |-> Guidance(issues)]>>]
             ELSE IF issues # <<>>
             THEN [t EXCEPT !.pc = "threw",
                            !.error = Thrown("ZodError",
                                [k \in 1..Len(issues) |->
                                    IssueLine(issues[k])])]
             ELSE [t EXCEPT !.pc = "awaiting", !.feature = name]

\* the awaited feature resolves: { content: [{ type: 'text', text: result }] }
FeatureResolves(text) ==
    /\ tool.pc = "awaiting"
    /\ tool' = [tool EXCEPT !.pc = "returned",
                            !.result.kind = "resolved", !.result.text = text,
                            !.content = <<[type |-> "text", text |-> text]>>]

\* the awaited feature rejects: the rejection leaves handleWikisRequest
\* a handler that answers a rejection with the text of its message
FeatureRejectsAnswering(error) ==
    /\ tool.pc = "awaiting"
    /\ tool' = [tool EXCEPT !.pc = "returned",
                            !.result.kind = "rejected", !.result.error = error,
                            !.content = <<[type |-> "text",
                                           text |-> error.message]>>]

FeatureRejects(error) ==
    /\ tool.pc = "awaiting"
    /\ tool' = [tool EXCEPT !.pc = "threw", !.error = error,
                            !.result.kind = "rejected", !.result.error = error]

(***************************************************************************)
(* features/wikis: createWikiPage and getWikiPage against the service      *)
(***************************************************************************)
\* utils/environment: defaultOrg, the organization of AZURE_DEVOPS_ORG_URL
defaultOrg == <<"contoso">>

\* getWikiClient({ organizationId }): new WikiClient(organizationId ||
\* defaultOrg), whose constructor sets this.baseUrl = defaultBaseUrl
getWikiClient(organizationId) ==
    LET defaultBaseUrl == <<"https://dev.azure.com/">> \o defaultOrg
        constructorArgument ==
            IF organizationId # <<>> THEN organizationId ELSE defaultOrg
    IN  [baseUrl |-> defaultBaseUrl]

\* no feature is running and none has run
InitCall ==
    call = [pc |-> "idle", feature |-> "none", supplied |-> Undefined,
            pagePath |-> <<>>, count |-> 0, request |-> NoRequest,
            baseUrl |-> <<>>, status |-> -1,
            outcome |-> Thrown("none", <<>>), content |-> "none",
            existed |-> FALSE,
            created |-> [pagePath |-> <<>>, target |-> <<>>,
                         content |-> "none"]]

\* createWikiPage({ organizationId, projectId, wikiId, pagePath, content }),
\* organizationId being args.organizationId ?? defaultOrg: the client is
\* obtained and createPage(content, projectId, wikiId, pagePath) sends its
\* PUT, unless getAuthorizationHeader throws inside the try of createPage
CreateWikiPage(supplied, pagePath, content, authorized) ==
    /\ call.pc = "idle"
    /\ call.count < MaxCalls
    /\ LET organizationId == IF supplied = Undefined THEN defaultOrg
                             ELSE supplied
           client == getWikiClient(organizationId)
           entered == [call EXCEPT !.feature = "createWikiPage",
                                   !.supplied = supplied,
                                   !.pagePath = pagePath,
                                   !.count = @ + 1, !.status = -1,
                                   !.content = "none", !.existed = FALSE,
                                   !.request = NoRequest, !.baseUrl = <<>>]
       IN  call' =
             IF authorized
             THEN [entered EXCEPT
                      !.pc = "PUT", !.outcome = Thrown("none", <<>>),
                      !.baseUrl = client.baseUrl,
                      !.request = [method |-> "PUT",
                                   path |-> EncodePagePath(pagePath),
                                   ifMatch |-> NoHeader,
                                   content |-> content]]
             ELSE [entered EXCEPT
                      !.outcome = createPage_catch(
                          Thrown("AzureDevOpsValidationError",
                              <<Lit("Failed to get authorization header")>>),
                          pagePath)]
    /\ UNCHANGED <<pages, etagStyle>>

\* getWikiPage({ organizationId, projectId, wikiId, pagePath }): the path is
\* normalized, the client is obtained and getPage(projectId, wikiId,
\* normalizedPagePath) normalizes again, encodes and sends its GET, unless
\* getAuthorizationHeader throws inside the try of getPage
GetWikiPage(supplied, pagePath, authorized) ==
    /\ call.pc = "idle"
    /\ call.count < MaxCalls
    /\ LET organizationId == IF supplied = Undefined THEN defaultOrg
                             ELSE supplied
           normalizedPagePath == normalizeWikiPath(pagePath)
           client == getWikiClient(organizationId)
           entered == [call EXCEPT !.feature = "getWikiPage",
                                   !.supplied = supplied,
                                   !.pagePath = pagePath,
                                   !.count = @ + 1, !.status = -1,
                                   !.content = "none", !.existed = FALSE,
                                   !.request = NoRequest, !.baseUrl = <<>>]
       IN  call' =
             IF authorized
             THEN [entered EXCEPT
                      !.pc = "GET", !.outcome = Thrown("none", <<>>),
                      !.baseUrl = client.baseUrl,
                      !.request = [method |-> "GET",
                                   path |-> GetPagePath(normalizedPagePath),
                                   ifMatch |-> NoHeader,
                                   content |-> "none"]]
             ELSE [entered EXCEPT
                      !.outcome = FeatureCatch("getWikiPage",
                          getPage_catch(
                              Thrown("AzureDevOpsValidationError",
                                <<Lit("Failed to get authorization header")>>),
                              <<"W", "1">>, normalizedPagePath))]
    /\ UNCHANGED <<pages, etagStyle>>

\* the request gets its reply, or none (fault 0), and the feature returns
\* or throws: the service refuses with the status fault, or (fault -1)
\* processes the request as ServePut and ServeGet say
CallReply(fault) ==
    /\ call.pc \in {"PUT", "GET"}
    /\ \E overwrite \in BOOLEAN :
          LET target == RequestTarget(call.request.path)
              put == ServePut(call.request, pages, etagStyle, overwrite)
              get == ServeGet(call.request.path, pages, etagStyle)
              status == IF fault # -1 THEN fault
                        ELSE IF call.pc = "PUT" THEN put.status
                        ELSE get.status
              error == [kind |-> "AxiosError",
                        message |-> <<Lit("Request failed")>>,
                        response |-> IF status = 0 THEN NoResponse
                                     ELSE [status |-> status,
                                           hasMessage |-> FALSE,
                                           message |-> <<>>]]
              done == [call EXCEPT !.pc = "idle", !.status = status,
                                   !.existed = pages[target].exists]
          IN  /\ pages' = IF fault = -1 /\ call.pc = "PUT" THEN put.pages
                          ELSE pages
              /\ call' =
                   IF status \in {200, 201} /\ call.pc = "PUT"
                   THEN [done EXCEPT
                           !.outcome = Thrown("ok", <<>>),
                           !.content = call.request.content,
                           !.created = [pagePath |-> call.pagePath,
                                        target |-> target,
                                        content |-> call.request.content]]
                   ELSE IF status = 200
                   THEN [done EXCEPT
                           !.outcome = Thrown("ok", <<>>),
                           !.content = pages[target].content]
                   ELSE IF call.pc = "PUT"
                   THEN [done EXCEPT
                           !.outcome = createPage_catch(error, call.pagePath)]
                   ELSE [done EXCEPT
                           !.outcome = FeatureCatch("getWikiPage",
                               getPage_catch(error, <<"W", "1">>,
                                   normalizeWikiPath(call.pagePath)))]
    /\ UNCHANGED etagStyle

InitNormIdle ==
    /\ normPc = "off"
    /\ normIn = <<>>
    /\ normOut = Unset
    /\ normTwice = Unset
    /\ clientOut = Unset

\* one updatePage invocation against a wiki other writers write to
Init ==
    InitUpd /\ InitNormIdle /\ InitListIdle /\ InitOpsIdle /\ InitTool
        /\ InitCall

Next ==
    \/ \E i \in Invocations, pagePath \in UpdatePaths :
          UpdatePageStart(i, pagePath)
              /\ UNCHANGED <<normVars, listVars, opsVars, tool, call>>
    \/ \E i \in Invocations :
          GetPageAuthFails(i) /\ UNCHANGED <<normVars, listVars, opsVars, tool, call>>
    \/ \E i \in Invocations :
          GetPageSend(i) /\ UNCHANGED <<normVars, listVars, opsVars, tool, call>>
    \/ \E i \in Invocations :
          GetPageReply(i) /\ UNCHANGED <<normVars, listVars, opsVars, tool, call>>
    \/ \E i \in Invocations :
          PutAuthFails(i) /\ UNCHANGED <<normVars, listVars, opsVars, tool, call>>
    \/ \E i \in Invocations :
          PutSend(i) /\ UNCHANGED <<normVars, listVars, opsVars, tool, call>>
    \/ \E i \in Invocations :
          PutReply(i) /\ UNCHANGED <<normVars, listVars, opsVars, tool, call>>
    \/ \E i \in Invocations :
          PutFails(i) /\ UNCHANGED <<normVars, listVars, opsVars, tool, call>>
    \/ \E target \in ServerPaths :
          OtherWrite(target) /\ UNCHANGED <<normVars, listVars, opsVars, tool, call>>

Spec == Init /\ [][Next]_vars

\* the path normalisers on every raw path
InitNormSpec ==
    InitNorm /\ InitUpdIdle /\ InitListIdle /\ InitOpsIdle /\ InitTool
        /\ InitCall

NextNormSpec ==
    \/ Normalize /\ UNCHANGED <<updVars, listVars, opsVars, tool, call>>
    \/ NormalizeAgain /\ UNCHANGED <<updVars, listVars, opsVars, tool, call>>
    \/ GetPageNormalize /\ UNCHANGED <<updVars, listVars, opsVars, tool, call>>
    \/ UpdatePageNormalize /\ UNCHANGED <<updVars, listVars, opsVars, tool, call>>

SpecNorm == InitNormSpec /\ [][NextNormSpec]_vars

\* listWikiPages on every response shape
InitListSpec ==
    InitList /\ InitUpdIdle /\ InitNormIdle /\ InitOpsIdle /\ InitTool
        /\ InitCall

NextListSpec == ListWikiPagesReturn
    /\ UNCHANGED <<updVars, normVars, opsVars, tool, call>>

SpecList == InitListSpec /\ [][NextListSpec]_vars

\* every WikiClient method, called directly or by its feature, against
\* every reply of the service
InitOpsSpec ==
    InitOps /\ InitUpdIdle /\ InitNormIdle /\ InitListIdle /\ InitTool
        /\ InitCall

NextOpsSpec ==
    \/ \E name \in {"listWikis", "listWikiPages", "getPage", "createWiki",
                     "createPage", "updatePage"},
          projectId \in ProjectIds, pagePath \in UpdatePaths :
          OpCall(name, projectId, <<"W", "1">>, pagePath)
              /\ UNCHANGED <<updVars, normVars, listVars, tool, call>>
    \/ \E reply \in CredentialReplies : OpAuthorize(reply)
        /\ UNCHANGED <<updVars, normVars, listVars, tool, call>>
    \/ OpSucceeds /\ UNCHANGED <<updVars, normVars, listVars, tool, call>>
    \/ \E reply \in ErrorReplies : OpReply(reply)
        /\ UNCHANGED <<updVars, normVars, listVars, tool, call>>
    \/ OpTransportFails /\ UNCHANGED <<updVars, normVars, listVars, tool, call>>
    \/ \E feature \in {"getWikis", "getWikiPage", "listWikiPages"},
          client \in {"WikiClient", "double"}, projectId \in ProjectIds,
          pagePath \in UpdatePaths :
          FeatureCall(feature, client, projectId, <<"W", "1">>, pagePath)
              /\ UNCHANGED <<updVars, normVars, listVars, tool, call>>
    \/ FeatureSettle /\ UNCHANGED <<updVars, normVars, listVars, tool, call>>
    \/ \E error \in DoubleRejections : FeatureDoubleRejects(error)
        /\ UNCHANGED <<updVars, normVars, listVars, tool, call>>

SpecOps == InitOpsSpec /\ [][NextOpsSpec]_vars

\* handleWikisRequest on every tool name, every outcome of the schema and
\* every outcome of the feature
InitToolSpec ==
    InitTool /\ InitUpdIdle /\ InitNormIdle /\ InitListIdle /\ InitOpsIdle
        /\ InitCall

NextToolSpec ==
    \/ \E name \in ToolNames, issues \in IssueLists :
          HandleWikisRequest(name, issues)
              /\ UNCHANGED <<updVars, normVars, listVars, opsVars, call>>
    \/ \E text \in { <<Lit("{}")>>, <<Lit("{ count: 0, value: [] }")>>,
                      <<Lit("{ content: '', path: '/Home' }")>> } :
          FeatureResolves(text)
              /\ UNCHANGED <<updVars, normVars, listVars, opsVars, call>>
    \/ \E error \in DoubleRejections \cup
                     {Thrown("AzureDevOpsValidationError",
                             <<Lit("Version conflict")>>)} :
          FeatureRejects(error)
              /\ UNCHANGED <<updVars, normVars, listVars, opsVars, call>>

SpecTool == InitToolSpec /\ [][NextToolSpec]_vars

\* createWikiPage and getWikiPage called one after another on a wiki that
\* holds either page or not
InitPagesSpec ==
    /\ InitCall /\ InitNormIdle /\ InitListIdle /\ InitOpsIdle /\ InitTool
    /\ pages \in [ServerPaths -> {AbsentPage, InitialPage}]
    /\ etagStyle \in EtagStyles
    /\ otherWrites = 0
    /\ upd = [i \in Invocations |-> [IdleInvocation EXCEPT !.pc = "off"]]
    /\ net = [i \in Invocations |-> NoRequest]
    /\ hist = [i \in Invocations |-> NoHistory]

NextPagesSpec ==
    \/ \E supplied \in {Undefined, <<"fabrikam">>}, pagePath \in UpdatePaths,
          content \in {"c1", "c2"}, authorized \in BOOLEAN :
          CreateWikiPage(supplied, pagePath, content, authorized)
              /\ UNCHANGED <<otherWrites, upd, net, hist, normVars, listVars,
                             opsVars, tool>>
    \/ \E supplied \in {Undefined, <<"fabrikam">>}, pagePath \in UpdatePaths,
          authorized \in BOOLEAN :
          GetWikiPage(supplied, pagePath, authorized)
              /\ UNCHANGED <<otherWrites, upd, net, hist, normVars, listVars,
                             opsVars, tool>>
    \/ \E fault \in {-1, 0, 401, 500} :
          CallReply(fault)
              /\ UNCHANGED <<otherWrites, upd, net, hist, normVars, listVars,
                             opsVars, tool>>

SpecPages == InitPagesSpec /\ [][NextPagesSpec]_vars

\* two updatePage invocations against a wiki other writers write to
InitTwo ==
    /\ InitNormIdle /\ InitListIdle /\ InitOpsIdle /\ InitTool /\ InitCall
    /\ pages \in [ServerPaths -> {AbsentPage, InitialPage}]
    /\ etagStyle \in EtagStyles
    /\ otherWrites = 0
    /\ upd = [i \in Invocations |-> IdleInvocation]
    /\ net = [i \in Invocations |-> NoRequest]
    /\ hist = [i \in Invocations |-> NoHistory]

SpecTwo == InitTwo /\ [][Next]_vars

(***************************************************************************)
(* Properties of the update sequencer                                      *)
(***************************************************************************)
Issued(i, event) == \E k \in 1..Len(hist[i].events) : hist[i].events[k] = event

Count(i, event) ==
    Cardinality({k \in 1..Len(hist[i].events) : hist[i].events[k] = event})

IsPrefix(s, t) == Len(s) <= Len(t) /\ SubSeq(t, 1, Len(s)) = s

UpdateSequence == <<"GET", "GET_DONE", "PUT", "PUT_DONE">>

\* the fetch of invocation i returned an ETag of the page its PUT names
FetchedOwnETag(i) ==
    /\ hist[i].fetch = "exists"
    /\ Truthy(upd[i].currentETag)
    /\ GetTarget(i) = PutTarget(i)

\* C1: when another writer has modified the page between the fetch of its
\* ETag and the processing of the PUT, the service answers 412, updatePage
\* throws the version-conflict validation error, and the write is not applied:
\* the page does not hold the content of the invocation.
C1_StaleWriteRejected ==
    \A i \in Invocations :
        (hist[i].conflict /\ FetchedOwnETag(i)) =>
            /\ upd[i].pc = "DONE"
            /\ hist[i].putStatus = 412
            /\ upd[i].result =
                   Failure("AzureDevOpsValidationError", "Version conflict")
            /\ ~hist[i].applied
            /\ pages[PutTarget(i)].content # i

C1_Witness ==
    \E i \in Invocations :
        /\ hist[i].conflict
        /\ FetchedOwnETag(i)
        /\ upd[i].result.kind = "AzureDevOpsValidationError"
        /\ pages[PutTarget(i)].content = "other"

\* C2 (as stated): after a fetch answered 404 the invocation has issued its
\* PUT by the time it is done, the PUT carries no If-Match, and a 2xx reply
\* makes it succeed.
C2_AbsentPageAlwaysWritten ==
    \A i \in Invocations :
        (hist[i].fetch = "absent" /\ upd[i].pc = "DONE") =>
            /\ Issued(i, "PUT")
            /\ hist[i].ifMatch = NoHeader
            /\ (hist[i].putStatus \in {200, 201} => upd[i].result.kind = "ok")

\* C2 (amended): a fetch answered 404 is not surfaced; the invocation goes on
\* to the write.  It is done without having issued a PUT only when the
\* authorization header of the write could not be obtained; a PUT it issues
\* carries no If-Match; a 2xx reply makes it return the written page, and a
\* not-found error can only come from the PUT.
C2_AbsentPageProceedsToWrite ==
    \A i \in Invocations :
        hist[i].fetch = "absent" =>
            /\ upd[i].pc \in {"PAGE_ABSENT", "WRITE", "DONE"}
            /\ (Issued(i, "PUT") => hist[i].ifMatch = NoHeader)
            /\ (upd[i].pc = "DONE" /\ ~Issued(i, "PUT")) =>
                   upd[i].result = UpdatePageError(0)
            /\ (upd[i].pc = "DONE" /\ hist[i].putStatus \in {200, 201}) =>
                   /\ upd[i].result.kind = "ok"
                   /\ hist[i].applied
            /\ (upd[i].result.kind = "AzureDevOpsResourceNotFoundError") =>
                   hist[i].putStatus = 404

C2_Witness ==
    \E i \in Invocations :
        /\ hist[i].fetch = "absent"
        /\ upd[i].pc = "DONE"
        /\ hist[i].ifMatch = NoHeader
        /\ hist[i].putStatus = 201
        /\ upd[i].result.message = "Page created successfully"
        /\ pages[PutTarget(i)].content = i

\* C3: a PUT that follows a successful fetch carries If-Match holding the
\* fetched ETag in double quotes, and a PUT without If-Match follows only a
\* fetch that reported the page absent.
C3_IfMatchWheneverPageExists ==
    \A i \in Invocations :
        Issued(i, "PUT") =>
            /\ hist[i].fetch = "exists" =>
                   /\ hist[i].ifMatch # NoHeader
                   /\ hist[i].ifMatch = Quote(upd[i].currentETag)
            /\ hist[i].ifMatch = NoHeader => hist[i].fetch = "absent"

\* C4 (as stated): every finished invocation has issued exactly one GET, and
\* its requests follow the order GET, reply, PUT, reply.
C4_ExactlyOneGet ==
    \A i \in Invocations :
        upd[i].pc = "DONE" =>
            /\ IsPrefix(hist[i].events, UpdateSequence)
            /\ Count(i, "GET") = 1

\* C4 (amended): the requests of an invocation are a prefix of GET, reply,
\* PUT, reply: at most one GET, at most one PUT, the PUT only after the reply
\* to the GET, no request after a failure; the sequencer is at the position
\* the requests made so far determine, and an invocation finishes without any
\* GET only when the authorization header of the fetch could not be obtained.
C4_ReadBeforeWrite ==
    \A i \in Invocations :
        /\ IsPrefix(hist[i].events, UpdateSequence)
        /\ upd[i].pc \in {"off", "idle", "FETCH_CURRENT"} => hist[i].events = <<>>
        /\ upd[i].pc = "GET_IN_FLIGHT" => hist[i].events = <<"GET">>
        /\ upd[i].pc \in {"PAGE_EXISTS", "PAGE_ABSENT"} =>
               hist[i].events = <<"GET", "GET_DONE">>
        /\ upd[i].pc = "WRITE" => hist[i].events = <<"GET", "GET_DONE", "PUT">>
        /\ upd[i].pc = "DONE" =>
               /\ Len(hist[i].events) \in {0, 2, 4}
               /\ hist[i].events = <<>> => upd[i].result = GetPageError(0)

C4_Witness ==
    \E i \in Invocations :
        /\ upd[i].pc = "DONE"
        /\ hist[i].events = UpdateSequence
        /\ hist[i].putStatus = 412

\* C5: the If-Match header of a conditional write is, character for
\* character, the ETag header value the fetch returned.
C5_ETagEchoedVerbatim ==
    \A i \in Invocations :
        (Issued(i, "PUT") /\ hist[i].ifMatch # NoHeader) =>
            hist[i].ifMatch = hist[i].etagHeader

(***************************************************************************)
(* Properties of the path normalisers                                      *)
(***************************************************************************)
HasMdExtension(path) ==
    LET n == Len(path)
    IN  /\ n >= 3
        /\ path[n - 2] = "."
        /\ path[n - 1] \in {"m", "M"}
        /\ path[n] \in {"d", "D"}

HasHyphen(s) == \E k \in 1..Len(s) : s[k] = "-"

\* t is s with every hyphen turned into a space
HyphensBecameSpaces(s, t) ==
    /\ Len(t) = Len(s)
    /\ \A k \in 1..Len(s) : t[k] = IF s[k] = "-" THEN " " ELSE s[k]

\* the segments of result are those of prepared, the hyphens of the final
\* one turned into spaces and the others untouched
OnlyLastSegmentChanged(prepared, result) ==
    LET before == split(prepared, "/")
        after  == split(result, "/")
    IN  /\ Len(after) = Len(before)
        /\ \A k \in 1..(Len(before) - 1) : after[k] = before[k]
        /\ HyphensBecameSpaces(before[Len(before)], after[Len(after)])

\* C6: normalising a normalised path changes nothing.
C6_Idempotent == normPc = "renormalized" => normTwice = normOut

\* C7: "/Folder/My-Page.md" is normalised to "/Folder/My Page".
C7_FolderMyPage ==
    (normPc = "normalized" /\ normIn = FolderMyPageMd) => normOut = FolderMyPage

C7_Witness ==
    /\ normPc = "normalized"
    /\ normIn = FolderMyPageMd
    /\ normOut = FolderMyPage

\* C8: both normalisers turn the hyphens of the final segment into spaces and
\* return every earlier segment with its hyphens unchanged.
C8_HyphensOfLastSegmentOnly ==
    /\ normPc = "normalized" =>
           /\ OnlyLastSegmentChanged(PreparePath(normIn), normOut)
           /\ ~HasHyphen(split(normOut, "/")[Len(split(normOut, "/"))])
    /\ normPc = "clientRaw" =>
           /\ OnlyLastSegmentChanged(WikiClient_PreparePath(normIn), clientOut)
           /\ ~HasHyphen(split(clientOut, "/")[Len(split(clientOut, "/"))])

C8_Witness ==
    /\ normPc = "normalized"
    /\ normIn = <<"-", "/", "-">>
    /\ normOut = <<"/", "-", "/", " ">>

RanksNoLater(a, b) ==
    IF a.order # b.order
    THEN \/ b.order = NoOrder
         \/ a.order # NoOrder /\ a.order < b.order
    ELSE localeCompare(a.path, b.path) <= 0

\* the number of times page occurs in list
Occurrences(list, page) == Cardinality({k \in 1..Len(list) : list[k] = page})

IsPermutation(s, t) ==
    /\ Len(s) = Len(t)
    /\ \A k \in 1..Len(s) : Occurrences(s, s[k]) = Occurrences(t, s[k])

\* C10: the pages listWikiPages returns are in ascending order of
\* (order, a missing order last; path), and are the pages extracted from the
\* response, each as often as it was extracted.
C10_SortedPermutation ==
    listPc = "returned" =>
        /\ \A k \in 1..(Len(listResult) - 1) :
               RanksNoLater(listResult[k], listResult[k + 1])
        /\ IsPermutation(listResult, ExtractPages(listData))

C10_Witness ==
    /\ listPc = "returned"
    /\ Len(listResult) = 3
    /\ listResult[1].order = 0
    /\ listResult[2].order = NoOrder
    /\ listResult[2].path = <<"/", "a">>
    /\ listResult[3].order = NoOrder
    /\ listResult[3].path = <<"/", "b">>
    /\ listResult[1].id = 3

(***************************************************************************)
(* Properties of the failure mapping of the wiki operations                *)
(***************************************************************************)
\* message contains the fragments of part, in order and adjacent
Contains(message, part) ==
    \E k \in 1..(Len(message) - Len(part) + 1) :
        SubSeq(message, k, k + Len(part) - 1) = part

\* the operation ended on a reply of the service whose status is in statuses
RepliedWith(statuses) ==
    /\ op.pc = "DONE"
    /\ op.cause.kind = "AxiosError"
    /\ op.cause.response # NoResponse
    /\ op.cause.response.status \in statuses

\* the identifier of the caller the operation is about: the page path of a
\* page operation, the wiki of a listing of pages, the project otherwise
CallerIdentifier(o) ==
    IF o.name \in {"getPage", "createPage", "updatePage"} THEN o.pagePath
    ELSE IF o.name = "listWikiPages" THEN o.wikiId
    ELSE o.projectId

\* C11: an operation that ends on a 404 reply (list wikis, list pages, get
\* page, create wiki and its project lookup, create page, the write of update
\* page) fails with a ResourceNotFound error whose message contains the
\* identifier the caller supplied; only the 404 of updatePage's initial fetch
\* is not surfaced and means that the page is absent.
C11_NotFoundSurfaces ==
    /\ RepliedWith({404}) =>
          /\ op.outcome.kind = "AzureDevOpsResourceNotFoundError"
          /\ Contains(op.outcome.message, <<CallerIdentifier(op)>>)
    /\ op.fetch = "absent" => op.name = "updatePage" /\ op.stage = "write"

\* C12: an operation that ends on a 401 or 403 reply, the project lookup of
\* createWiki included, fails with a PermissionDenied error.
C12_PermissionDeniedSurfaces ==
    RepliedWith({401, 403}) =>
        op.outcome.kind = "AzureDevOpsPermissionError"

\* C13: an operation that ends on a 400 reply fails with a Validation error.
C13_BadRequestIsValidation ==
    RepliedWith({400}) =>
        op.outcome.kind = "AzureDevOpsValidationError"

\* C14 as stated: a 412 reply becomes a validation (version-conflict) error
\* on the write of updatePage only; on every other operation, createPage
\* included, it becomes the generic error.
C14_PreconditionFailedOnUpdateOnly ==
    RepliedWith({412}) =>
        IF op.name = "updatePage" /\ op.stage = "write"
        THEN op.outcome.kind = "AzureDevOpsValidationError"
        ELSE op.outcome.kind = "AzureDevOpsError"

\* C14 amended: a 412 reply becomes a validation error on the write of
\* updatePage (version conflict) and on createPage (page already exists,
\* naming the page path); on every other operation it becomes the generic
\* error.
C14_PreconditionFailedOnWrites ==
    RepliedWith({412}) =>
        IF op.name = "updatePage" /\ op.stage = "write"
        THEN /\ op.outcome.kind = "AzureDevOpsValidationError"
             /\ Contains(op.outcome.message, <<Lit("Version conflict")>>)
        ELSE IF op.name = "createPage"
        THEN /\ op.outcome.kind = "AzureDevOpsValidationError"
             /\ Contains(op.outcome.message,
                         <<Lit("Wiki page already exists: "), op.pagePath>>)
        ELSE op.outcome.kind = "AzureDevOpsError"

C14_Witness ==
    /\ RepliedWith({412})
    /\ op.name = "createPage"
    /\ op.outcome.kind = "AzureDevOpsValidationError"

\* the message of the failure as it came from upstream: the message of the
\* body of the reply when it has one, that of the transport otherwise
UpstreamMessage(cause) ==
    IF cause.response.hasMessage /\ cause.response.message # <<>>
    THEN cause.response.message
    ELSE cause.message

\* C15: an operation that ends on a reply whose status is none of 400, 401,
\* 403, 404, 412, or on a transport failure without a reply, fails with the
\* base AzureDevOpsError (no subclass) whose message contains the upstream
\* error message.
C15_GenericForTheRest ==
    /\ op.pc = "DONE"
    /\ op.cause.kind = "AxiosError"
    /\ \/ op.cause.response = NoResponse
       \/ op.cause.response.status \notin {400, 401, 403, 404, 412}
    => /\ op.outcome.kind = "AzureDevOpsError"
       /\ Contains(op.outcome.message, UpstreamMessage(op.cause))

C15_Witness ==
    /\ RepliedWith({500})
    /\ op.name = "createPage"
    /\ op.cause.response.hasMessage
    /\ op.cause.response.message # <<>>
    /\ op.outcome.kind = "AzureDevOpsError"
    /\ Contains(op.outcome.message, op.cause.response.message)

(***************************************************************************)
(* Properties of getAuthorizationHeader                                    *)
(***************************************************************************)
\* C16: when the credential provider yields no token (null, or an empty
\* token string) getAuthorizationHeader fails with an error of the
\* Authentication kind and the operation that asked for the header fails
\* with that Authentication error.
C16_NoTokenIsAuthenticationError ==
    op.pc = "DONE" /\ op.noToken =>
        /\ op.auth.error.kind = "AzureDevOpsAuthenticationError"
        /\ op.outcome.kind = "AzureDevOpsAuthenticationError"

\* two strings that differ in the case of their letters at most
EqualIgnoringCase(s, t) ==
    /\ s # Unset
    /\ Len(s) = Len(t)
    /\ \A k \in 1..Len(s) : PrimaryWeight(s[k]) = PrimaryWeight(t[k])

\* base64 of ':' followed by the PAT, from the encoding's definition
ExpectedBase64(pat) ==
    IF pat = <<"a">> THEN <<"O", "m", "E", "=">>
    ELSE IF pat = <<"a", "b">> THEN <<"O", "m", "F", "i">>
    ELSE IF pat = <<"a", "b", "c">>
    THEN <<"O", "m", "F", "i", "Y", "w", "=", "=">>
    ELSE <<>>

\* C17: a call of getAuthorizationHeader returns 'Basic ' + base64(':' + PAT)
\* and consults no credential provider exactly when the auth method is 'pat'
\* in any letter case and a non-empty PAT is configured; in every other
\* configuration it asks the CLI credential when the method is 'azure-cli'
\* (in any letter case) and the platform-default credential otherwise, for
\* the fixed Azure DevOps scope, and what it returns is 'Bearer ' + token.
C17_OneStrategyPerCall ==
    op.auth.credential # "unasked" =>
        IF /\ EqualIgnoringCase(env.method, <<"p", "a", "t">>)
           /\ env.pat \notin {Unset, <<>>}
        THEN /\ op.auth.ok
             /\ op.auth.credential = "none"
             /\ op.auth.header =
                  <<"B", "a", "s", "i", "c", " ">> \o ExpectedBase64(env.pat)
        ELSE /\ op.auth.credential =
                  IF EqualIgnoringCase(env.method,
                        <<"a", "z", "u", "r", "e", "-", "c", "l", "i">>)
                  THEN "AzureCliCredential"
                  ELSE "DefaultAzureCredential"
             /\ op.auth.scope = "499b84ac-1321-427f-aa17-267ca6975798/.default"
             /\ op.auth.ok =>
                  op.auth.header =
                      <<"B", "e", "a", "r", "e", "r", " ", "t", "o", "k">>

C17_Witness ==
    /\ env.method = <<"P", "A", "T">>
    /\ env.pat = <<"a", "b", "c">>
    /\ op.pc = "SENT"
    /\ op.auth.credential = "none"
    /\ op.auth.header =
         <<"B", "a", "s", "i", "c", " ", "O", "m", "F", "i", "Y", "w", "=", "=">>

(***************************************************************************)
(* Properties of handleWikisRequest and isWikisRequest                     *)
(***************************************************************************)
\* C18: for malformed arguments (the schema finds issues) handleWikisRequest
\* does not throw for any wiki tool: it returns one text content item whose
\* text lists every issue, and no feature function is invoked.
C18_MalformedArgumentsReturnGuidance ==
    /\ tool.pc \in {"returned", "threw", "awaiting"}
    /\ tool.name \in {"get_wikis", "get_wiki_page", "create_wiki",
                      "update_wiki_page", "list_wiki_pages", "create_wiki_page"}
    /\ tool.issues # <<>>
    => /\ tool.pc = "returned"
       /\ tool.feature = "none"
       /\ Len(tool.content) = 1
       /\ tool.content[1].type = "text"
       /\ \A k \in 1..Len(tool.issues) :
             Contains(tool.content[1].text, <<IssueLine(tool.issues[k])>>)

\* C19: isWikisRequest is true exactly for get_wikis, get_wiki_page,
\* create_wiki, update_wiki_page, list_wiki_pages and create_wiki_page, and
\* handleWikisRequest throws 'Unknown wikis tool' exactly for the names
\* isWikisRequest rejects.
C19_RoutingAgreesWithDispatch ==
    /\ \A name \in ToolNames :
          isWikisRequest(name) <=>
              name \in {"get_wikis", "get_wiki_page", "create_wiki",
                        "update_wiki_page", "list_wiki_pages",
                        "create_wiki_page"}
    /\ tool.pc \in {"returned", "threw", "awaiting"} =>
          (tool.routed <=> isWikisRequest(tool.name))
    /\ tool.pc \in {"returned", "threw", "awaiting"} =>
          (~tool.routed <=>
              /\ tool.pc = "threw"
              /\ tool.error.kind = "Error"
              /\ Contains(tool.error.message,
                          <<Lit("Unknown wikis tool: "), <<tool.name>>>>))

C19_Witness ==
    /\ tool.pc = "threw"
    /\ tool.name = "Get_Wikis"
    /\ ~tool.routed
    /\ Contains(tool.error.message, <<Lit("Unknown wikis tool: ")>>)

(***************************************************************************)
(* Properties of the features getWikis, getWikiPage and listWikiPages      *)
(***************************************************************************)
\* C20: when its client call fails, getWikis, getWikiPage or listWikiPages
\* fails too: with the very error of the client when that is an
\* AzureDevOpsError of any kind (ResourceNotFound stays ResourceNotFound,
\* PermissionDenied stays PermissionDenied), with a generic AzureDevOpsError
\* otherwise; no other error type escapes.
C20_FeaturesRethrowOrWrap ==
    feat.pc = "settled" /\ feat.clientOutcome.kind # "ok" =>
        /\ feat.outcome.kind \in
              {"AzureDevOpsError", "AzureDevOpsResourceNotFoundError",
               "AzureDevOpsPermissionError", "AzureDevOpsValidationError",
               "AzureDevOpsAuthenticationError"}
        /\ IF feat.clientOutcome.kind \in
                 {"AzureDevOpsError", "AzureDevOpsResourceNotFoundError",
                  "AzureDevOpsPermissionError", "AzureDevOpsValidationError",
                  "AzureDevOpsAuthenticationError"}
           THEN feat.outcome = feat.clientOutcome
           ELSE feat.outcome.kind = "AzureDevOpsError"

C20_Witness ==
    /\ feat.pc = "settled"
    /\ feat.name = "getWikiPage"
    /\ feat.client = "WikiClient"
    /\ feat.clientOutcome.kind = "AzureDevOpsResourceNotFoundError"
    /\ feat.outcome.kind = "AzureDevOpsResourceNotFoundError"

(***************************************************************************)
(* C21: handleWikisRequest neither alters nor swallows what the feature    *)
(* gives                                                                   *)
(***************************************************************************)
\* C21: when the feature handleWikisRequest awaits rejects, the request
\* ends by throwing that very error and no content is returned; when it
\* resolves, the response holds exactly one content item, of type 'text',
\* whose text is the string the feature resolved with.
C21_FeatureOutcomePassedThrough ==
    /\ tool.result.kind = "rejected" =>
          /\ tool.pc = "threw"
          /\ tool.error = tool.result.error
          /\ tool.content = <<>>
    /\ tool.result.kind = "resolved" =>
          /\ tool.pc = "returned"
          /\ Len(tool.content) = 1
          /\ tool.content[1].type = "text"
          /\ tool.content[1].text = tool.result.text

\* update_wiki_page whose feature rejected with the version conflict
C21_Witness ==
    /\ tool.name = "update_wiki_page"
    /\ tool.result.kind = "rejected"
    /\ tool.result.error.kind = "AzureDevOpsValidationError"
    /\ tool.pc = "threw"

(***************************************************************************)
(* C22, C23: createWikiPage followed by getWikiPage                        *)
(***************************************************************************)
\* the service itself answered the request of the call that has ended
ServedBy(feature, statuses) ==
    /\ call.pc = "idle"
    /\ call.feature = feature
    /\ call.status \in statuses

\* C22: when a getWikiPage call is answered by the service and its pagePath
\* is the pagePath of the last createWikiPage that succeeded (no page was
\* written since), the GET names the page that create wrote and the call
\* returns the content that create wrote.
C22_CreateThenGetRoundTrips ==
    (/\ ServedBy("getWikiPage", {200, 404})
     /\ call.created.content # "none"
     /\ call.pagePath = call.created.pagePath)
        => /\ RequestTarget(call.request.path) = call.created.target
           /\ call.outcome.kind = "ok"
           /\ call.content = call.created.content

\* C23: when the service processes the PUT of a createWikiPage call on a
\* path whose page exists, the call succeeds and the page holds the new
\* content.
C23_CreateOnExistingPageReplaces ==
    (ServedBy("createWikiPage", {200, 201, 412}) /\ call.existed)
        => /\ call.outcome.kind = "ok"
           /\ pages[RequestTarget(call.request.path)].content
                 = call.request.content

(***************************************************************************)
(* C24: the organization a call is executed against                        *)
(***************************************************************************)
\* the base URL of the requests made against an organization
OrganizationBaseUrl(organizationId) ==
    <<"https://dev.azure.com/">> \o organizationId

\* C24: the request a getWikiPage call issues has the base URL of the
\* organization the call supplies, and the base URL of the default
\* organization when the call supplies none.
C24_RequestsGoToSuppliedOrganization ==
    (call.feature = "getWikiPage" /\ call.request.method = "GET")
        => call.baseUrl = OrganizationBaseUrl(
                              IF call.supplied = Undefined THEN defaultOrg
                              ELSE call.supplied)

(***************************************************************************)
(* C25: the page updatePage fetches and the page it writes                 *)
(***************************************************************************)
\* C25: in every updatePage invocation that has sent its GET and its PUT,
\* the path parameter of the GET is the path parameter of the PUT, and so
\* both name the same page.
C25_FetchAndWriteSamePage ==
    \A i \in Invocations :
        (Issued(i, "GET") /\ Issued(i, "PUT"))
            => /\ GetPagePath(upd[i].pagePath) = UpdatePagePath(upd[i].pagePath)
               /\ GetTarget(i) = PutTarget(i)

(***************************************************************************)
(* C26: two updatePage invocations on one path                             *)
(***************************************************************************)
\* the service applied the PUT of invocation i under a precondition: the
\* PUT carried If-Match, or it created the page
Enforced(i) ==
    /\ hist[i].applied
    /\ hist[i].ifMatch # NoHeader \/ hist[i].putStatus = 201

\* C26: when two updatePage invocations are given the same pagePath and the
\* service applies the write of both, each under a precondition, neither
\* write was applied over a write the other had made after the fetch of
\* the first: the later write comes from an invocation that fetched the
\* version the earlier one produced.
C26_NoLostUpdate ==
    \A i, j \in Invocations :
        (/\ i # j
         /\ upd[i].pagePath = upd[j].pagePath
         /\ Enforced(i)
         /\ Enforced(j))
            => i \notin hist[j].conflictWith

(***************************************************************************)
(* C27: a fetch that fails otherwise than with not-found                   *)
(***************************************************************************)
\* C27: when the fetch of an updatePage invocation has failed with anything
\* but not-found (a 401, 403 or 500 reply, no reply, or no authorization
\* header), the invocation is over, it has issued no PUT, the page does not
\* hold its content, and what it throws is the error getPage threw.
C27_FailedFetchStopsTheUpdate ==
    \A i \in Invocations :
        hist[i].fetch = "failed" =>
            /\ upd[i].pc = "DONE"
            /\ ~Issued(i, "PUT")
            /\ ~hist[i].applied
            /\ pages[PutTarget(i)].content # i
            /\ upd[i].result = GetPageError(hist[i].getStatus)
            /\ upd[i].result.kind # "AzureDevOpsResourceNotFoundError"

\* a fetch answered 403 has ended the invocation with the permission error
C27_Witness ==
    \E i \in Invocations :
        /\ hist[i].fetch = "failed"
        /\ hist[i].getStatus = 403
        /\ Issued(i, "GET")
        /\ upd[i].pc = "DONE"
        /\ upd[i].result.kind = "AzureDevOpsPermissionError"

(***************************************************************************)
(* C28: the hierarchical response of TFS on-premises                       *)
(***************************************************************************)
\* the pages of the tree under node, node included, that have the path and
\* the order of entry and have sub-pages (or the mark) as entry says
RECURSIVE CountNodes(_, _)
RECURSIVE CountInAll(_, _)
CountInAll(subPages, entry) ==
    IF subPages = <<>> THEN 0
    ELSE CountNodes(Head(subPages), entry) + CountInAll(Tail(subPages), entry)

CountNodes(node, entry) ==
    (IF /\ node.path = entry.path
        /\ node.order = entry.order
        /\ (node.isParentPage \/ node.subPages # <<>>) = entry.isParentPage
     THEN 1 ELSE 0) + CountInAll(node.subPages, entry)

\* C28: for a response that is a hierarchy of subPages, listWikiPages
\* returns no page whose path is empty or "/", and returns each page of
\* the tree that has another path, whatever its depth, exactly as many
\* times as the tree holds it, marked isParentPage exactly when it has
\* sub-pages (or carries the mark).
C28_HierarchyFlattened ==
    (listPc = "returned" /\ listData.format = "subPages") =>
        \A entry \in [path : ListPaths \cup { <<>>, <<"/">> },
                       order : Orders, isParentPage : BOOLEAN] :
            Cardinality({k \in 1..Len(listResult) :
                            /\ listResult[k].path = entry.path
                            /\ listResult[k].order = entry.order
                            /\ listResult[k].isParentPage = entry.isParentPage})
                = IF entry.path \in { <<>>, <<"/">> } THEN 0
                  ELSE CountNodes(listData.root, entry)

\* a root with two sub-pages of which one has a sub-page of its own
C28_Witness ==
    /\ listPc = "returned"
    /\ listData.format = "subPages"
    /\ Len(listData.root.subPages) = 2
    /\ \E k \in 1..2 : listData.root.subPages[k].subPages # <<>>
    /\ Len(listResult) = 3
    /\ \E k \in 1..3 : listResult[k].isParentPage

(***************************************************************************)
(* C29: the client's normalisation after the feature's                     *)
(***************************************************************************)
\* C29: the path getPage derives from the path getWikiPage hands it is that
\* path itself: WikiClient.normalizeWikiPath leaves every output of the
\* feature's normalizeWikiPath unchanged.
C29_ClientPassIsNoOp ==
    normPc = "client" => clientOut = normOut

(***************************************************************************)
(* C30: the shape of every normalised path                                 *)
(***************************************************************************)
\* C30: whatever the input (empty, blank, percent-encoded, undecodable),
\* the path normalizeWikiPath returns is not empty, starts with "/" and
\* holds no two "/" in a row.
C30_WellFormedPath ==
    normPc = "normalized" =>
        /\ normOut # <<>>
        /\ Head(normOut) = "/"
        /\ \A k \in 1..(Len(normOut) - 1) :
              ~(normOut[k] = "/" /\ normOut[k + 1] = "/")

\* an encoded slash next to a slash has been decoded and collapsed
C30_Witness ==
    /\ normPc = "normalized"
    /\ normIn = <<"/", "%", "2", "F", "a">>
    /\ normOut = <<"/", "a">>

====
